---------------------------- MODULE Spec2Model ----------------------------
(***************************************************************************)
(* Coordination analysis of wallet purchases (cointracker).                *)
(*                                                                         *)
(* The module models the analytic core of suspicious_wallet_findings.py:   *)
(* the purchase extractor (get_token_purchases), the three sub-scores and  *)
(* the weighted coordination score (calculate_coordination_score).         *)
(*                                                                         *)
(* Numbers.  The program computes with Python floats.  The model computes  *)
(* with exact rationals [n, d] in lowest terms; the one irrational         *)
(* quantity, the standard deviation, is kept in thousandths of an hour,    *)
(* rounded down, so the comparisons std_dev < 2 and std_dev < 12 are exact.*)
(*                                                                         *)
(* Specifications (each starts the variables of the others at rest):       *)
(*   SpecLead     calculate_lead_time_consistency on lists of lead times   *)
(*   SpecOverlap  calculate_overlap_score on pairs of token sets           *)
(*   Spec         calculate_coordination_score on purchase lists           *)
(*   SpecExtract  get_token_purchases on a batch of transactions           *)
(*   SpecRun      run_complete_analysis: target, baseline, candidates,     *)
(*                network analysis and report                              *)
(*   SpecFetch    the analyzer's get_wallet_transactions, request by       *)
(*                request                                                  *)
(*   SpecRetry    the fetch loops of the scanner, the funding-trail        *)
(*                tracker and the KOL tracker against a failing API        *)
(*   SpecInterrupt  the collecting runs of the trackers and their signals  *)
(***************************************************************************)
EXTENDS Integers, Sequences, FiniteSets, TLC

VARIABLES
    \* calculate_lead_time_consistency: argument, result, previous call
    shared_token_timings, lead_score, lead_pc, prev_lead

leadVars == <<shared_token_timings, lead_score, lead_pc, prev_lead>>

VARIABLES
    \* calculate_overlap_score: arguments, result, previous call
    wallet_tokens, gake_tokens, overlap_score, overlap_pc, prev_overlap

overlapVars == <<wallet_tokens, gake_tokens, overlap_score, overlap_pc, prev_overlap>>

VARIABLES
    \* calculate_coordination_score: the target's purchases, the baseline's
    \* token_timing_distributions, the candidate's purchases, the two lists the
    \* call builds, and what it returns
    gake_purchases, token_timing_distributions, wallet_purchases,
    shared_purchases, lead_times, score_data, score_pc

scoreVars == <<gake_purchases, token_timing_distributions, wallet_purchases,
               shared_purchases, lead_times, score_data, score_pc>>

VARIABLES
    \* get_token_purchases: its argument max_tokens, the number of transactions of
    \* the fetched batch gone through so far, and its two locals
    max_tokens, tx_count, purchases, seen_tokens, extract_pc,
    \* the transaction the loop is at: its err and blockTime, whether the loop is
    \* through with it, and the number of its token accounts gone through
    tx_err, tx_time, tx_left, entry_count,
    \* what the batch held (history, not program state)
    purchase_owners,      \* per event, the owner of the entry it was made from
    first_increase,       \* per mint, the first transaction with an increase of it
    wallet_increases      \* mints with an increase on an account of the wallet

extractVars == <<max_tokens, tx_count, purchases, seen_tokens, extract_pc,
                 tx_err, tx_time, tx_left, entry_count,
                 purchase_owners, first_increase, wallet_increases>>

VARIABLES
    \* run_complete_analysis: where it is, the second part of baseline_data, the
    \* wallets of potential_wallets the loop has not come to, and its results
    run_pc, random_wallet_overlaps, potential_wallets, scored_wallets,
    detailed_findings, network_analysis, report,
    \* what each wallet's fetch gave (history, not program state)
    fetched, failed_wallets

runVars == <<run_pc, random_wallet_overlaps, potential_wallets, scored_wallets,
             detailed_findings, network_analysis, report, fetched, failed_wallets>>

VARIABLES
    \* StatisticalCoordinationAnalyzer.get_wallet_transactions: where the call is, its
    \* argument limit, the two loop variables, the number of signatures of the
    \* list it goes through, the one it is at, and the list it builds
    fetch_pc, limit, attempt, tx_attempt, signatures, sig_pos, transactions, error_log,
    \* the requests the call has issued (history, not program state)
    sig_requests, tx_requests

fetchVars == <<fetch_pc, limit, attempt, tx_attempt, signatures, sig_pos, transactions,
               error_log, sig_requests, tx_requests>>

VARIABLES
    \* the API the fetch routines of the repository talk to
    api,
    \* WalletScanner.scan_until_target: where it is, found_wallets, and what is
    \* left of the batch of signatures it goes through
    scan_pc, found_wallets, batch,
    \* the funding-trail tracker's get_wallet_transactions: where it is, its page, the
    \* number of batches in all_transactions
    trail_pc, page, all_transactions,
    \* the KOL tracker's get_wallet_transactions: where it is, its loop variable
    \* and what it returned
    kol_pc, kol_attempt, kol_result

retryVars == <<api, scan_pc, found_wallets, batch, trail_pc, page, all_transactions,
               kol_pc, kol_attempt, kol_result>>

VARIABLES
    \* a collecting run of one of the trackers: the program, where the run is,
    \* the index i of its loop, the number of results in all_trades, the
    \* checkpoint file kol_progress.json, and the signals the process was sent
    program, run_state, wallet_index, all_trades, kol_progress, signals_received

signalVars == <<program, run_state, wallet_index, all_trades, kol_progress,
                signals_received>>

ioVars == <<fetchVars, retryVars, signalVars>>

VARIABLES
    \* get_token_purchases called on a fixed list of transactions: the list, the
    \* cap, what the first and the second call returned, and the seen_tokens the
    \* first call ended with
    batch_txs, batch_cap, batch_pc, extracted, extracted_again, seen_left

batchVars == <<batch_txs, batch_cap, batch_pc, extracted, extracted_again, seen_left>>

VARIABLES
    \* get_all_kol_trades_concurrent: where the call is, its argument max_workers,
    \* the sizes of the batches no thread has taken yet, what each thread of the
    \* pool is doing, and the trades of the batches that are done
    pool_pc, pool_size, pool_queue, worker, pool_trades

poolVars == <<pool_pc, pool_size, pool_queue, worker, pool_trades>>

VARIABLES
    \* run_analysis of a KOL tracker with its progress file: the program, where the
    \* run is, start_from and the loop index i of get_all_kol_trades, its
    \* all_trades, the trades loaded from the file, the file kol_progress.json and
    \* what the run aggregated; the trades the API has for every wallet, the
    \* interrupts so far, and whether a resume was declined (history)
    res_program, res_pc, res_start, res_i, res_all_trades, existing_trades, progress_file, final_trades, trades_per_wallet, interrupts, declined

resumeVars == <<res_program, res_pc, res_start, res_i, res_all_trades, existing_trades, progress_file, final_trades, trades_per_wallet, interrupts, declined>>

VARIABLES
    \* gake_frontrun_webhook_tracker.py: the clock, last_alert and price_history of one monitored token, and the calls of check_pump in flight
    clock, last_alert, price_history, pump_pc, pump_time, pump_price, pump_returned, pump_results

pumpVars == <<clock, last_alert, price_history, pump_pc, pump_time, pump_price, pump_returned, pump_results>>

VARIABLES
    \* telegram_gem_bot.py: the alerted tokens, the two coroutines of the event loop and the alerts sent since the last /clear
    alerted_tokens, bot_pc, bot_gems, alert_count, scans

botVars == <<alerted_tokens, bot_pc, bot_gems, alert_count, scans>>

VARIABLES
    \* gakecoordinationtracker.py: the purchases of the target and of one holder, and the pattern find_systematic_front_runners reports for the holder
    target_purchases, front_purchases, front_pc, wallet_patterns

frontVars == <<target_purchases, front_purchases, front_pc, wallet_patterns>>

VARIABLES
    \* 2faster_kol_tracker.py: the queue and the visited set of crawl_network, the calls of crawl_wallet it made, and the queue entries it passed over
    crawl_pc, crawl_queue, visited, crawls, max_depth, passed_over

crawlVars == <<crawl_pc, crawl_queue, visited, crawls, max_depth, passed_over>>

\* the variables of the programs other than the analyzer and its fetch routines
laterVars == <<batchVars, poolVars, resumeVars, pumpVars, botVars, frontVars, crawlVars>>

\* the later variables a specification leaves alone
notBatchVars == <<poolVars, resumeVars, pumpVars, botVars, frontVars, crawlVars>>
notPoolVars == <<batchVars, resumeVars, pumpVars, botVars, frontVars, crawlVars>>
notResumeVars == <<batchVars, poolVars, pumpVars, botVars, frontVars, crawlVars>>
notPumpVars == <<batchVars, poolVars, resumeVars, botVars, frontVars, crawlVars>>
notBotVars == <<batchVars, poolVars, resumeVars, pumpVars, frontVars, crawlVars>>
notFrontVars == <<batchVars, poolVars, resumeVars, pumpVars, botVars, crawlVars>>
notCrawlVars == <<batchVars, poolVars, resumeVars, pumpVars, botVars, frontVars>>

vars == <<leadVars, overlapVars, scoreVars, extractVars, runVars, ioVars, laterVars>>

None == "None"

\* the longest list of lead times SpecLead scores
MaxLeadTimes == 3

\* the number of token mints SpecOverlap draws the two token sets from
NumOverlapMints == 7

\* the largest max_tokens SpecExtract calls get_token_purchases with
MaxTokensArg == 2

\* the most token accounts one transaction of SpecExtract touches
MaxEntries == 2

(***************************************************************************)
(* Exact rational arithmetic standing for the program's float arithmetic.  *)
(***************************************************************************)
Abs(x) == IF x < 0 THEN -x ELSE x

RECURSIVE GCD(_, _)
GCD(a, b) == IF b = 0 THEN a ELSE GCD(b, a % b)

Rat(num, den) ==
    LET g == GCD(Abs(num), Abs(den))
        s == IF den < 0 THEN -1 ELSE 1
    IN  [n |-> (s * num) \div g, d |-> (s * den) \div g]

RInt(k) == [n |-> k, d |-> 1]

RAdd(a, b) == Rat(a.n * b.d + b.n * a.d, a.d * b.d)

RSub(a, b) == Rat(a.n * b.d - b.n * a.d, a.d * b.d)

RMul(a, b) == Rat(a.n * b.n, a.d * b.d)

RDiv(a, b) == Rat(a.n * b.d, a.d * b.n)

RLt(a, b) == a.n * b.d < b.n * a.d

RLe(a, b) == a.n * b.d <= b.n * a.d

RAbs(a) == [n |-> Abs(a.n), d |-> a.d]

RMin(a, b) == IF RLe(a, b) THEN a ELSE b

RMax(a, b) == IF RLe(a, b) THEN b ELSE a

RECURSIVE RSum(_)
RSum(xs) == IF xs = <<>> THEN RInt(0) ELSE RAdd(Head(xs), RSum(Tail(xs)))

\* statistics.mean
mean(xs) == RDiv(RSum(xs), RInt(Len(xs)))

\* the sample variance statistics.stdev takes the root of: n - 1 in the divisor
variance(xs) ==
    LET m == mean(xs)
        sq == [i \in DOMAIN xs |-> RMul(RSub(xs[i], m), RSub(xs[i], m))]
    IN  RDiv(RSum(sq), RInt(Len(xs) - 1))

\* the largest r in lo..hi with r * r <= k
RECURSIVE ISqrtIn(_, _, _)
ISqrtIn(k, lo, hi) ==
    IF lo = hi THEN lo
    ELSE LET mid == (lo + hi + 1) \div 2
         IN  IF mid * mid <= k THEN ISqrtIn(k, mid, hi) ELSE ISqrtIn(k, lo, mid - 1)

\* statistics.stdev in thousandths of an hour, rounded down; a deviation of
\* 46 hours or more is reported as 46000 (the scorer only asks whether it is
\* below 2 or below 12)
stdev(xs) ==
    LET v == variance(xs)
        q == v.n \div v.d
        r == v.n % v.d
    IN  IF q >= 2116 THEN 46000
        ELSE ISqrtIn(q * 1000000 + (r * 1000000) \div v.d, 0, 46000)

\* mutant: the difference in minutes
Hours_in_minutes(seconds) == Rat(seconds, 60)

\* a time difference in seconds as hours: (t2 - t1) / 3600
Hours(seconds) == Rat(seconds, 3600)

(***************************************************************************)
(* A. Overlap score.                                                       *)
(***************************************************************************)
\* overlap_pct = (overlap / len(gake_tokens)) * 100
overlap_percentage(overlap, total) == RMul(Rat(overlap, total), RInt(100))

\* mutant: one multiplier, 5, for every overlap percentage
calculate_overlap_score_times5(w_tokens, g_tokens) ==
    IF g_tokens = {} THEN RInt(0)
    ELSE LET overlap == Cardinality(w_tokens \cap g_tokens)
             overlap_pct == overlap_percentage(overlap, Cardinality(g_tokens))
         IN  RMin(RInt(100), RMul(overlap_pct, RInt(5)))

\* mutant: the upper branch without its cap
calculate_overlap_score_uncapped(w_tokens, g_tokens) ==
    IF g_tokens = {} THEN RInt(0)
    ELSE LET overlap == Cardinality(w_tokens \cap g_tokens)
             overlap_pct == overlap_percentage(overlap, Cardinality(g_tokens))
         IN  IF RLe(RInt(15), overlap_pct)
             THEN RMul(overlap_pct, RInt(5))
             ELSE RMul(overlap_pct, RInt(2))

calculate_overlap_score(w_tokens, g_tokens) ==
    IF g_tokens = {} THEN RInt(0)
    ELSE LET overlap == Cardinality(w_tokens \cap g_tokens)
             overlap_pct == overlap_percentage(overlap, Cardinality(g_tokens))
         IN  IF RLe(RInt(15), overlap_pct)
             THEN RMin(RInt(100), RMul(overlap_pct, RInt(5)))
             ELSE RMul(overlap_pct, RInt(2))

(***************************************************************************)
(* B. Lead-time consistency.                                               *)
(***************************************************************************)
\* mutant: the boundary of the first branch taken as "<= 2"
calculate_lead_time_consistency_le2(timings) ==
    IF Len(timings) < 2 THEN RInt(0)
    ELSE LET std_dev == stdev(timings)
         IN  IF std_dev <= 2000 THEN RInt(100)
             ELSE IF std_dev < 12000
                  THEN RMax(RInt(0), RSub(RInt(100), Rat(std_dev * 7, 1000)))
                  ELSE RInt(0)

\* mutant: the slope of the middle branch with the wrong sign
calculate_lead_time_consistency_rising(timings) ==
    IF Len(timings) < 2 THEN RInt(0)
    ELSE LET std_dev == stdev(timings)
         IN  IF std_dev < 2000 THEN RInt(100)
             ELSE IF std_dev < 12000
                  THEN RMax(RInt(0), Rat(std_dev * 7, 1000))
                  ELSE RInt(0)

calculate_lead_time_consistency(timings) ==
    IF Len(timings) < 2 THEN RInt(0)
    ELSE LET std_dev == stdev(timings)
         IN  IF std_dev < 2000 THEN RInt(100)
             ELSE IF std_dev < 12000
                  THEN RMax(RInt(0), RSub(RInt(100), Rat(std_dev * 7, 1000)))
                  ELSE RInt(0)

(***************************************************************************)
(* C. Statistical unlikelihood.                                            *)
(***************************************************************************)
\* the number of baseline buyers of the token whose distance to the target's
\* purchase is within 2 hours of the candidate's
RECURSIVE similar_timing_count(_, _, _)
similar_timing_count(all_times, gake_time, time_diff) ==
    IF all_times = <<>> THEN 0
    ELSE LET buyer_diff == Hours(Abs(Head(all_times) - gake_time))
             similar == RLt(RAbs(RSub(buyer_diff, time_diff)), RInt(2))
         IN  (IF similar THEN 1 ELSE 0)
                 + similar_timing_count(Tail(all_times), gake_time, time_diff)

\* the value one shared purchase with a non-empty timing distribution adds
unlikelihood_of(shared, all_times) ==
    LET time_diff == Hours(Abs(shared.wallet_timestamp - shared.gake_timestamp))
        similar_pct ==
            RMul(Rat(similar_timing_count(all_times, shared.gake_timestamp, time_diff),
                     Len(all_times)),
                 RInt(100))
    IN  IF RLt(similar_pct, RInt(10))
        THEN RSub(RInt(100), RMul(similar_pct, RInt(5)))
        ELSE RInt(0)

\* the list unlikelihood_scores: a shared purchase adds a value only when its
\* token is in the baseline with a non-empty list of buyer times
RECURSIVE unlikelihood_scores(_, _)
unlikelihood_scores(shared_list, distributions) ==
    IF shared_list = <<>> THEN <<>>
    ELSE LET shared == Head(shared_list)
             rest == unlikelihood_scores(Tail(shared_list), distributions)
         IN  IF /\ shared.token_mint \in DOMAIN distributions
                /\ distributions[shared.token_mint] # <<>>
             THEN <<unlikelihood_of(shared, distributions[shared.token_mint])>> \o rest
             ELSE rest

\* mutant: the sum divided by the number of shared purchases
calculate_statistical_unlikelihood_all(shared_list, distributions) ==
    IF shared_list = <<>> THEN RInt(0)
    ELSE LET scores == unlikelihood_scores(shared_list, distributions)
         IN  IF scores # <<>> THEN RDiv(RSum(scores), RInt(Len(shared_list))) ELSE RInt(0)

calculate_statistical_unlikelihood(shared_list, distributions) ==
    IF shared_list = <<>> THEN RInt(0)
    ELSE LET scores == unlikelihood_scores(shared_list, distributions)
         IN  IF scores # <<>> THEN mean(scores) ELSE RInt(0)

(***************************************************************************)
(* Phase 2: the coordination score.                                        *)
(***************************************************************************)
\* the two tests of the outer if: same mint, and the wallet bought first
bought_before(wallet_p, gake_p) ==
    /\ wallet_p.token_mint = gake_p.token_mint
    /\ wallet_p.timestamp < gake_p.timestamp

time_diff_hours(wallet_p, gake_p) == Hours(gake_p.timestamp - wallet_p.timestamp)

\* mutant: the window without its upper end
within_window_open(hours) == RLe(RInt(1), hours)

\* 1 <= time_diff_hours <= 168: 1 hour to 1 week
within_window(hours) == RLe(RInt(1), hours) /\ RLe(hours, RInt(168))

\* the first purchase of the wallet, from index j on, that the inner loop
\* appends for gake_p (0 when it appends none)
RECURSIVE first_coordinated(_, _, _)
first_coordinated(wallet_ps, gake_p, j) ==
    IF j > Len(wallet_ps) THEN 0
    ELSE IF /\ bought_before(wallet_ps[j], gake_p)
            /\ within_window(time_diff_hours(wallet_ps[j], gake_p))
         THEN j
         ELSE first_coordinated(wallet_ps, gake_p, j + 1)

\* the list shared_purchases after the two loops
RECURSIVE find_shared_purchases(_, _)
find_shared_purchases(wallet_ps, gake_ps) ==
    IF gake_ps = <<>> THEN <<>>
    ELSE LET gake_p == Head(gake_ps)
             j == first_coordinated(wallet_ps, gake_p, 1)
             rest == find_shared_purchases(wallet_ps, Tail(gake_ps))
         IN  IF j = 0 THEN rest
             ELSE <<[token_mint |-> gake_p.token_mint,
                     wallet_timestamp |-> wallet_ps[j].timestamp,
                     gake_timestamp |-> gake_p.timestamp,
                     lead_time_hours |-> time_diff_hours(wallet_ps[j], gake_p),
                     wallet_signature |-> wallet_ps[j].signature,
                     gake_signature |-> gake_p.signature]>> \o rest

\* the list lead_times, appended to together with shared_purchases
lead_times_of(shared_list) ==
    [i \in DOMAIN shared_list |-> shared_list[i].lead_time_hours]

token_set(ps) == {ps[i].token_mint : i \in DOMAIN ps}

\* mutant: a single shared purchase is enough
too_few_shared_lt1(shared_list) == Len(shared_list) < 1

\* "Must have at least 2 shared tokens bought before GAKE"
too_few_shared(shared_list) == Len(shared_list) < 2

\* overlap_score * 0.3 + lead_consistency_score * 0.4 + unlikelihood_score * 0.3
weighted_score(overlap, lead, unlikelihood) ==
    RAdd(RAdd(RMul(overlap, Rat(3, 10)), RMul(lead, Rat(4, 10))),
         RMul(unlikelihood, Rat(3, 10)))

NoneScore == [kind |-> "None"]

\* the dict returned, from the three sub-scores
score_dict(shared, leads, g_tokens, overlap_sc, lead_sc, unlikelihood_sc) ==
    [kind |-> "CoordinationScore",
     final_score |-> weighted_score(overlap_sc, lead_sc, unlikelihood_sc),
     overlap_score |-> overlap_sc,
     lead_consistency_score |-> lead_sc,
     unlikelihood_score |-> unlikelihood_sc,
     shared_token_count |-> Len(shared),
     overlap_percentage |-> overlap_percentage(Len(shared), Cardinality(g_tokens)),
     avg_lead_time_hours |-> mean(leads),
     shared_purchases |-> shared]

\* the part of calculate_coordination_score after the two loops
score_of_shared(shared, leads, w_tokens, g_tokens, distributions) ==
    IF too_few_shared(shared) THEN NoneScore
    ELSE score_dict(shared, leads, g_tokens,
                    calculate_overlap_score(w_tokens, g_tokens),
                    calculate_lead_time_consistency(leads),
                    calculate_statistical_unlikelihood(shared, distributions))

\* the shared purchases and their lead times, then the score
score_with_leads(shared, w_tokens, g_tokens, distributions) ==
    score_of_shared(shared, lead_times_of(shared), w_tokens, g_tokens, distributions)

calculate_coordination_score(wallet_ps, gake_ps, distributions) ==
    score_with_leads(find_shared_purchases(wallet_ps, gake_ps),
                     token_set(wallet_ps), token_set(gake_ps), distributions)

(***************************************************************************)
(* The baseline threshold of the scorer, and the scorer with it.           *)
(***************************************************************************)
\* xs with x put at its place, xs being in ascending order
RECURSIVE insert_sorted(_, _)
insert_sorted(x, xs) ==
    IF xs = <<>> THEN <<x>>
    ELSE IF RLe(x, Head(xs)) THEN <<x>> \o xs
         ELSE <<Head(xs)>> \o insert_sorted(x, Tail(xs))

\* sorted(xs)
RECURSIVE sorted(_)
sorted(xs) == IF xs = <<>> THEN <<>> ELSE insert_sorted(Head(xs), sorted(Tail(xs)))

\* np.percentile(xs, q) of a non-empty list, by linear interpolation between the
\* two values around the place q / 100 * (len(xs) - 1) of the sorted list
percentile(xs, q) ==
    LET ordered == sorted(xs)
        place == RMul(Rat(q, 100), RInt(Len(xs) - 1))
        below == place.n \div place.d
        fraction == RSub(place, RInt(below))
        lower == ordered[below + 1]
        upper == ordered[IF below + 2 <= Len(xs) THEN below + 2 ELSE below + 1]
    IN  RAdd(lower, RMul(fraction, RSub(upper, lower)))

\* mutant: an empty sample also stands in for a sample of zeros
percentile_95_default10(overlaps) ==
    IF overlaps # <<>> /\ \E i \in DOMAIN overlaps : overlaps[i].n # 0
    THEN percentile(overlaps, 95)
    ELSE RInt(10)

\* percentile_95: the 95th percentile of random_wallet_overlaps, 10 without a sample
percentile_95(overlaps) ==
    IF overlaps # <<>> THEN percentile(overlaps, 95) ELSE RInt(10)

\* 'exceeds_baseline': overlap_pct > percentile_95
exceeds_baseline(overlap_pct, overlaps) == RLt(percentile_95(overlaps), overlap_pct)

\* the dict calculate_coordination_score returns, with 'wallet' and
\* 'exceeds_baseline' in it
with_baseline(wallet, data, overlaps) ==
    IF data.kind = "None" THEN NoneScore
    ELSE [kind |-> "CoordinationScore",
              wallet |-> wallet,
              final_score |-> data.final_score,
              overlap_score |-> data.overlap_score,
              lead_consistency_score |-> data.lead_consistency_score,
              unlikelihood_score |-> data.unlikelihood_score,
              shared_token_count |-> data.shared_token_count,
              overlap_percentage |-> data.overlap_percentage,
              exceeds_baseline |->
                  exceeds_baseline(data.overlap_percentage, overlaps),
              avg_lead_time_hours |-> data.avg_lead_time_hours,
              shared_purchases |-> data.shared_purchases]

\* calculate_coordination_score(wallet, wallet_purchases, gake_purchases) with
\* self.baseline_data
coordination_score_data(wallet, wallet_ps, gake_ps, baseline) ==
    with_baseline(wallet,
                  calculate_coordination_score(wallet_ps, gake_ps,
                                               baseline.token_timing_distributions),
                  baseline.random_wallet_overlaps)

(***************************************************************************)
(* Phase 3: analyze_network_patterns.  high_score_wallets is a dict, here  *)
(* the sequence of its items [wallet, data] in insertion order.            *)
(***************************************************************************)
\* {p['token_mint']: p for p in shared_purchases}: the keys, and the value of a key
\* (the last purchase of that mint)
tokens_of(shared_list) == {shared_list[k].token_mint : k \in DOMAIN shared_list}

purchase_of(shared_list, token_mint) ==
    LET at == {k \in DOMAIN shared_list : shared_list[k].token_mint = token_mint}
    IN  shared_list[CHOOSE k \in at : \A l \in at : l <= k]

\* shared_tokens of two wallets
shared_tokens_of(data1, data2) ==
    tokens_of(data1.shared_purchases) \cap tokens_of(data2.shared_purchases)

\* abs(wallet1_tokens[token_mint]['wallet_timestamp'] -
\*     wallet2_tokens[token_mint]['wallet_timestamp']) / 3600
time_difference_hours(data1, data2, token_mint) ==
    Hours(Abs(purchase_of(data1.shared_purchases, token_mint).wallet_timestamp
              - purchase_of(data2.shared_purchases, token_mint).wallet_timestamp))

\* the sum of timing_correlations over the tokens
RECURSIVE sum_time_differences(_, _, _)
sum_time_differences(data1, data2, tokens) ==
    IF tokens = {} THEN RInt(0)
    ELSE LET token_mint == CHOOSE t \in tokens : TRUE
         IN  RAdd(time_difference_hours(data1, data2, token_mint),
                  sum_time_differences(data1, data2, tokens \ {token_mint}))

\* avg_time_diff = statistics.mean(timing_correlations), for shared tokens
avg_time_diff(data1, data2) ==
    LET tokens == shared_tokens_of(data1, data2)
    IN  RDiv(sum_time_differences(data1, data2, tokens), RInt(Cardinality(tokens)))

\* mutant: an average of exactly 6 hours is close enough
close_in_time_le6(avg) == RLe(avg, RInt(6))

\* "If they bought within 6 hours of each other on average"
close_in_time(avg) == RLt(avg, RInt(6))

\* the two tests under which wallet2 is appended to wallet1's correlated_wallets
correlated(data1, data2) ==
    /\ Cardinality(shared_tokens_of(data1, data2)) >= 2
    /\ close_in_time(avg_time_diff(data1, data2))

\* mutant: the inner loop does not pass over the pairs behind wallet1
pair_examined_both_ways(i, j) == i # j

\* "if i >= j: continue"
pair_examined(i, j) == ~(i >= j)

\* the places j of the wallets appended to the correlated_wallets of place i
correlated_places(high, i) ==
    SelectSeq([j \in 1..Len(high) |-> j],
              LAMBDA j : pair_examined(i, j) /\ correlated(high[i].data, high[j].data))

\* network_findings, in insertion order; the empty dict for fewer than 2 wallets
analyze_network_patterns(high) ==
    IF Len(high) < 2 THEN <<>>
    ELSE [i \in 1..Len(high) |->
            LET places == correlated_places(high, i)
            IN  [wallet |-> high[i].wallet,
                 correlated_wallets |->
                     [k \in 1..Len(places) |->
                         [wallet |-> high[places[k]].wallet,
                          shared_tokens |->
                              Cardinality(shared_tokens_of(high[i].data, high[places[k]].data)),
                          avg_time_difference_hours |->
                              avg_time_diff(high[i].data, high[places[k]].data)]],
                 shared_timing_patterns |-> Len(places)]]

\* the rows of finding_type PRIMARY_COORDINATION logged for a flagged wallet
primary_findings(wallet, data) ==
    [k \in 1..Len(data.shared_purchases) |->
        [finding_type |-> "PRIMARY_COORDINATION",
         coordinated_wallet |-> wallet,
         coordination_score |-> data.final_score,
         token_mint |-> data.shared_purchases[k].token_mint,
         lead_time_hours |-> data.shared_purchases[k].lead_time_hours]]

\* mutant: every wallet with a score is flagged
flagged_any_score(data) == data.kind # "None"

\* "Threshold for flagging"
flagged(data) == data.kind # "None" /\ RLe(RInt(40), data.final_score)

\* mutant: the cutoff of phase 3 is the cutoff of phase 2
is_high_score_40(data) == RLe(RInt(40), data.final_score)

\* v['final_score'] >= 70
is_high_score(data) == RLe(RInt(70), data.final_score)

\* high_score_wallets = {k: v for k, v in scored_wallets.items() if ...}
high_score_of(scored) == SelectSeq(scored, LAMBDA item : is_high_score(item.data))

(***************************************************************************)
(* generate_report and save_results: who is in which list and file.        *)
(***************************************************************************)
\* item put into a list in descending order of final_score, before the items
\* of the same score
RECURSIVE insert_by_score(_, _)
insert_by_score(item, items) ==
    IF items = <<>> THEN <<item>>
    ELSE IF RLe(Head(items).data.final_score, item.data.final_score)
         THEN <<item>> \o items
         ELSE <<Head(items)>> \o insert_by_score(item, Tail(items))

\* sorted(scored_wallets.items(), key=final_score, reverse=True)
RECURSIVE sorted_by_score(_)
sorted_by_score(items) ==
    IF items = <<>> THEN <<>>
    ELSE insert_by_score(Head(items), sorted_by_score(Tail(items)))

wallets_of(items) == [k \in DOMAIN items |-> items[k].wallet]

\* the rows of network_analysis.csv: one per entry of correlated_wallets
RECURSIVE network_rows(_)
network_rows(network) ==
    IF network = <<>> THEN <<>>
    ELSE LET analysis == Head(network)
         IN  [k \in DOMAIN analysis.correlated_wallets |->
                 [wallet_1 |-> analysis.wallet,
                  wallet_2 |-> analysis.correlated_wallets[k].wallet,
                  shared_tokens |-> analysis.correlated_wallets[k].shared_tokens,
                  avg_time_difference_hours |->
                      analysis.correlated_wallets[k].avg_time_difference_hours]]
             \o network_rows(Tail(network))

\* what the report shows and the files hold; nothing is saved without a flagged wallet
generate_report(scored, network) ==
    IF scored = <<>> THEN [saved |-> FALSE]
    ELSE LET sorted_wallets == sorted_by_score(scored)
         IN  [saved |-> TRUE,
              strong_coordination |->
                  wallets_of(SelectSeq(sorted_wallets,
                                       LAMBDA item : RLe(RInt(70), item.data.final_score))),
              possible_coordination |->
                  wallets_of(SelectSeq(sorted_wallets,
                                       LAMBDA item : /\ RLe(RInt(40), item.data.final_score)
                                                     /\ RLt(item.data.final_score, RInt(70)))),
              coordination_scores |-> {scored[k].wallet : k \in DOMAIN scored},
              high_confidence |->
                  {scored[k].wallet : k \in {l \in DOMAIN scored : is_high_score(scored[l].data)}},
              network_analysis |-> network_rows(network)]

(***************************************************************************)
(* The purchase extractor, get_token_purchases.                            *)
(*                                                                         *)
(* A transaction is [err, timestamp, signature, preTokenBalances,          *)
(* postTokenBalances]; a balance entry is [accountIndex, mint, owner,      *)
(* uiAmount].                                                              *)
(***************************************************************************)
wsol_address == "WSOL"

\* the wallet whose purchases are extracted, and another owner of token accounts
SubjectWallet == "W"

OtherWallet == "X"

\* a uiAmount that is null in the RPC's answer
NoAmount == 0 - 1

\* the positions of the pre-balance entries with that account index
pre_balance_keys(pre_balances, account_index) ==
    {k \in DOMAIN pre_balances : pre_balances[k].accountIndex = account_index}

\* pre_balance_map[account_index]: the pre-balance entry with that account index
\* (the last one, as in a dict comprehension)
pre_balance_of(pre_balances, account_index) ==
    LET at == pre_balance_keys(pre_balances, account_index)
    IN  pre_balances[CHOOSE k \in at : \A l \in at : l <= k]

\* pre_amount of a post-balance entry: 0 unless the entry at the same account
\* index has the same mint and a uiAmount
pre_amount_of(pre_balances, post_balance) ==
    LET pre_balance == pre_balance_of(pre_balances, post_balance.accountIndex)
    IN  IF pre_balance_keys(pre_balances, post_balance.accountIndex) = {} THEN 0
        ELSE IF pre_balance.mint = post_balance.mint /\ pre_balance.uiAmount # NoAmount
             THEN pre_balance.uiAmount
             ELSE 0

\* "Check if this is a purchase (balance increased)"
is_purchase(post_amount, pre_amount) == post_amount > pre_amount

\* the entries the loop over post_balances passes over before looking at amounts
skip_entry(post_balance, seen) ==
    \/ post_balance.mint = None
    \/ post_balance.mint = wsol_address
    \/ post_balance.mint \in seen
    \/ post_balance.uiAmount = NoAmount

\* estimated_usd
estimated_usd(token_increase) ==
    IF token_increase > 1000 THEN Rat(token_increase, 1000) ELSE RInt(token_increase * 10)

\* the purchase made from a post-balance entry of a transaction
purchase_from(post_balance, pre_balances, block_time, signature) ==
    LET token_increase == post_balance.uiAmount - pre_amount_of(pre_balances, post_balance)
    IN  [token_mint |-> post_balance.mint,
         amount_tokens |-> token_increase,
         amount_usd |-> estimated_usd(token_increase),
         timestamp |-> block_time,
         signature |-> signature]

\* one pass of the loop over post_balances comes to purchases.append: the entry
\* is not passed over and its amount is above the pre-balance amount
found_purchase(post_balance, pre_balances, seen) ==
    /\ ~skip_entry(post_balance, seen)
    /\ is_purchase(post_balance.uiAmount, pre_amount_of(pre_balances, post_balance))

\* purchases[:max_tokens]
truncated(purchase_list, cap) ==
    SubSeq(purchase_list, 1, IF Len(purchase_list) < cap THEN Len(purchase_list) ELSE cap)

(***************************************************************************)
(* The state every specification starts from; a specification moves only  *)
(* the variables of its own part.                                          *)
(***************************************************************************)
LeadAtRest ==
    /\ shared_token_timings = <<>>
    /\ lead_score = None
    /\ lead_pc = "input"
    /\ prev_lead = [count |-> 0, variance |-> RInt(0), score |-> RInt(0)]

OverlapAtRest ==
    /\ wallet_tokens = {}
    /\ gake_tokens = {}
    /\ overlap_score = None
    /\ overlap_pc = "input"
    /\ prev_overlap = [pct |-> RInt(0), score |-> RInt(0)]

ScoreAtRest ==
    /\ gake_purchases = <<>>
    /\ token_timing_distributions = <<>>
    /\ wallet_purchases = <<>>
    /\ shared_purchases = <<>>
    /\ lead_times = <<>>
    /\ score_data = [kind |-> "unscored"]
    /\ score_pc = "target"

\* the mints of the transactions SpecExtract feeds the extractor
ExtractMints == {"A", "B", wsol_address}

ExtractAtRest ==
    /\ max_tokens = 1
    /\ tx_count = 0
    /\ purchases = <<>>
    /\ seen_tokens = {}
    /\ extract_pc = "rest"
    /\ tx_err = FALSE
    /\ tx_time = 0
    /\ tx_left = FALSE
    /\ entry_count = 0
    /\ purchase_owners = <<>>
    /\ first_increase = [mint \in ExtractMints |-> 0]
    /\ wallet_increases = {}

\* the wallets get_top_token_holders returns for the target's tokens, in the
\* order the loop over the set potential_wallets comes to them
PotentialWallets == <<"W1", "W2", "W3">>

RunAtRest ==
    /\ run_pc = "start"
    /\ random_wallet_overlaps = <<>>
    /\ potential_wallets = <<>>
    /\ scored_wallets = <<>>
    /\ detailed_findings = <<>>
    /\ network_analysis = <<>>
    /\ report = [saved |-> FALSE]
    /\ fetched = [k \in DOMAIN PotentialWallets |-> <<>>]
    /\ failed_wallets = {}

\* retry_max and retry_delay_base of StatisticalCoordinationAnalyzer.__init__
retry_max == 3

\* the most signatures a signature list holds
MaxSignatures == 2

FetchAtRest ==
    /\ fetch_pc = "rest"
    /\ limit = 0
    /\ attempt = 0
    /\ tx_attempt = 0
    /\ signatures = 0
    /\ sig_pos = 0
    /\ transactions = <<>>
    /\ error_log = <<>>
    /\ sig_requests = 0
    /\ tx_requests = [k \in 1..MaxSignatures |-> 0]

RetryAtRest ==
    /\ api = "ok"
    /\ scan_pc = "rest"
    /\ found_wallets = {}
    /\ batch = <<>>
    /\ trail_pc = "rest"
    /\ page = 1
    /\ all_transactions = 0
    /\ kol_pc = "rest"
    /\ kol_attempt = 0
    /\ kol_result = "None"

NoProgress == [kind |-> "None"]

SignalAtRest ==
    /\ program = "None"
    /\ run_state = "rest"
    /\ wallet_index = 0
    /\ all_trades = 0
    /\ kol_progress = NoProgress
    /\ signals_received = {}

IoAtRest == FetchAtRest /\ RetryAtRest /\ SignalAtRest

BatchAtRest ==
    /\ batch_txs = <<>>
    /\ batch_cap = 1
    /\ batch_pc = "rest"
    /\ extracted = <<>>
    /\ extracted_again = <<>>
    /\ seen_left = {}

\* the most threads a pool is given, and one more
MaxWorkers == 2

PoolThreadIds == 1 .. (MaxWorkers + 1)

IdleThread == [phase |-> "idle", left |-> 0, batch_trades |-> 0]

PoolAtRest ==
    /\ pool_pc = "rest"
    /\ pool_size = 1
    /\ pool_queue = <<>>
    /\ worker = [w \in PoolThreadIds |-> IdleThread]
    /\ pool_trades = 0

\* len(self.kol_wallets) of the runs with a progress file
NumResumeWallets == 11

\* a list of trades, as the number of trades of each wallet in it
NoTrades == [w \in 1..NumResumeWallets |-> 0]

ResumeAtRest ==
    /\ res_program = "None"
    /\ res_pc = "rest"
    /\ res_start = 0
    /\ res_i = 0
    /\ res_all_trades = NoTrades
    /\ existing_trades = NoTrades
    /\ progress_file = NoProgress
    /\ final_trades = NoTrades
    /\ trades_per_wallet = 0
    /\ interrupts = 0
    /\ declined = FALSE

\* time.time() when the server starts, in seconds: any value past ALERT_COOLDOWN
StartClock == 1000

PumpThreads == {"monitor", "webhook", "check"}

PumpAtRest ==
    /\ clock = StartClock
    /\ last_alert = 0
    /\ price_history = <<>>
    /\ pump_pc = [th \in PumpThreads |-> "idle"]
    /\ pump_time = [th \in PumpThreads |-> 0]
    /\ pump_price = [th \in PumpThreads |-> NoAmount]
    /\ pump_returned = "nothing yet"
    /\ pump_results = <<>>

BotTasks == {"handler", "job"}

BotTokens == {"T1", "T2"}

BotAtRest ==
    /\ alerted_tokens = {}
    /\ bot_pc = [task \in BotTasks |-> "idle"]
    /\ bot_gems = [task \in BotTasks |-> <<>>]
    /\ alert_count = [t \in BotTokens |-> 0]
    /\ scans = 0

NoPattern == [kind |-> "None"]

FrontAtRest ==
    /\ target_purchases = <<>>
    /\ front_purchases = <<>>
    /\ front_pc = "fetching"
    /\ wallet_patterns = NoPattern

CrawlAtRest ==
    /\ crawl_pc = "rest"
    /\ crawl_queue = <<>>
    /\ visited = {}
    /\ crawls = <<>>
    /\ max_depth = 0
    /\ passed_over = {}

LaterAtRest == BatchAtRest /\ PoolAtRest /\ ResumeAtRest /\ PumpAtRest /\ BotAtRest /\ FrontAtRest /\ CrawlAtRest

(***************************************************************************)
(* Spec: run_complete_analysis up to the scoring of the candidates.  The   *)
(* target's purchases arrive (deduplicated by get_token_purchases, one     *)
(* mint after another), build_baseline_data records a list of buyer times  *)
(* for each of them, and then candidate after candidate is fetched and     *)
(* scored.  All times are seconds; a candidate's or a buyer's time is      *)
(* given by its distance to the target's purchase of the same mint.        *)
(***************************************************************************)
Mints == <<"A", "B", "C">>

\* when the target bought each mint
TargetTime == [m \in {"A", "B", "C"} |-> CASE m = "A" -> 1000 [] m = "B" -> 2000 [] m = "C" -> 3000]

\* how long before the target a candidate bought: an hour after it, 59 minutes,
\* 1 hour, 3 hours, 5 hours, 168 hours, 168 hours and 1 second before it
LeadChoices == {-3600, 3540, 3600, 10800, 18000, 604800, 604801}

\* the buyer times build_baseline_data may record for a token the target bought
\* at gake_time: none; one buyer 3 hours before; eleven buyers, one of them 3
\* hours before and ten 100 hours later
TimingChoices(gake_time) ==
    { <<>>,
      <<gake_time - 10800>>,
      <<gake_time - 10800>> \o [i \in 1..10 |-> gake_time + 360000] }

InitScore == LeadAtRest /\ OverlapAtRest /\ ScoreAtRest /\ ExtractAtRest /\ RunAtRest /\ IoAtRest /\ LaterAtRest

\* get_token_purchases(target_wallet) returns one more purchase
TargetPurchase ==
    /\ score_pc = "target"
    /\ Len(gake_purchases) < Len(Mints)
    /\ LET mint == Mints[Len(gake_purchases) + 1]
       IN  gake_purchases' =
               Append(gake_purchases,
                      [token_mint |-> mint, timestamp |-> TargetTime[mint],
                       signature |-> <<"GAKE", Len(gake_purchases) + 1>>])
    /\ UNCHANGED <<token_timing_distributions, wallet_purchases, shared_purchases,
                   lead_times, score_data, score_pc>>
    /\ UNCHANGED <<leadVars, overlapVars, extractVars, runVars, ioVars, laterVars>>

\* "if not gake_purchases: return"; otherwise phase 1 begins
StartBaseline ==
    /\ score_pc = "target"
    /\ gake_purchases # <<>>
    /\ score_pc' = "baseline"
    /\ UNCHANGED <<gake_purchases, token_timing_distributions, wallet_purchases,
                   shared_purchases, lead_times, score_data>>
    /\ UNCHANGED <<leadVars, overlapVars, extractVars, runVars, ioVars, laterVars>>

\* build_baseline_data records token_purchase_times for the next token
BaselineToken(times) ==
    /\ score_pc = "baseline"
    /\ LET i == Cardinality(DOMAIN token_timing_distributions) + 1
           mint == gake_purchases[i].token_mint
       IN  /\ times \in TimingChoices(gake_purchases[i].timestamp)
           /\ token_timing_distributions' =
                  [m \in DOMAIN token_timing_distributions \cup {mint} |->
                      IF m = mint THEN times ELSE token_timing_distributions[m]]
           /\ score_pc' = IF i = Len(gake_purchases) THEN "candidate" ELSE "baseline"
    /\ UNCHANGED <<gake_purchases, wallet_purchases, shared_purchases, lead_times,
                   score_data>>
    /\ UNCHANGED <<leadVars, overlapVars, extractVars, runVars, ioVars, laterVars>>

\* get_token_purchases(wallet) returns one more purchase, of a mint not yet in it
CandidatePurchase(mint, lead) ==
    /\ score_pc = "candidate"
    /\ mint \notin token_set(wallet_purchases)
    /\ wallet_purchases' =
           Append(wallet_purchases,
                  [token_mint |-> mint, timestamp |-> TargetTime[mint] - lead,
                   signature |-> <<"W", Len(wallet_purchases) + 1>>])
    /\ UNCHANGED <<gake_purchases, token_timing_distributions, shared_purchases,
                   lead_times, score_data, score_pc>>
    /\ UNCHANGED <<leadVars, overlapVars, extractVars, runVars, ioVars, laterVars>>

\* score_data = calculate_coordination_score(wallet, wallet_purchases, gake_purchases)
ScoreCandidate ==
    /\ score_pc = "candidate"
    /\ shared_purchases' = find_shared_purchases(wallet_purchases, gake_purchases)
    /\ lead_times' = lead_times_of(shared_purchases')
    /\ score_data' = calculate_coordination_score(wallet_purchases, gake_purchases,
                                                  token_timing_distributions)
    /\ score_pc' = "scored"
    /\ UNCHANGED <<gake_purchases, token_timing_distributions, wallet_purchases>>
    /\ UNCHANGED <<leadVars, overlapVars, extractVars, runVars, ioVars, laterVars>>

\* the loop over potential_wallets goes on to the next wallet
NextCandidate ==
    /\ score_pc = "scored"
    /\ wallet_purchases' = <<>>
    /\ shared_purchases' = <<>>
    /\ lead_times' = <<>>
    /\ score_data' = [kind |-> "unscored"]
    /\ score_pc' = "candidate"
    /\ UNCHANGED <<gake_purchases, token_timing_distributions>>
    /\ UNCHANGED <<leadVars, overlapVars, extractVars, runVars, ioVars, laterVars>>

Next ==
    \/ TargetPurchase
    \/ StartBaseline
    \/ \E times \in UNION {TimingChoices(TargetTime[m]) : m \in DOMAIN TargetTime} :
           BaselineToken(times)
    \/ \E mint \in DOMAIN TargetTime, lead \in LeadChoices : CandidatePurchase(mint, lead)
    \/ ScoreCandidate
    \/ NextCandidate

Spec == InitScore /\ [][Next]_vars

\* a call of calculate_coordination_score has returned
Scored == score_pc = "scored"

\* wallet purchase w is of the mint of target purchase g, earlier than it, by at
\* least 3600 and at most 604800 seconds
Qualifies(w, g) ==
    /\ w.token_mint = g.token_mint
    /\ w.timestamp < g.timestamp
    /\ g.timestamp - w.timestamp >= 3600
    /\ g.timestamp - w.timestamp <= 604800

\* the target purchases that some purchase of the candidate qualifies for
QualifyingTargets ==
    {i \in DOMAIN gake_purchases :
        \E j \in DOMAIN wallet_purchases : Qualifies(wallet_purchases[j], gake_purchases[i])}

\* C1: calculate_coordination_score returns None exactly when the candidate has
\* fewer than 2 qualifying shared-and-earlier purchases (in particular with
\* exactly one), and a CoordinationScore when it has 2 or more.
C1_MinimumTwo ==
    Scored =>
        /\ Cardinality(QualifyingTargets) < 2 => score_data = NoneScore
        /\ Cardinality(QualifyingTargets) >= 2 =>
               /\ score_data.kind = "CoordinationScore"
               /\ score_data.shared_token_count = Cardinality(QualifyingTargets)

\* C1 witness: the candidate holds two of the target's tokens, exactly one of
\* them bought in the window before the target, and the score is None.
C1_Witness ==
    /\ Scored
    /\ Cardinality(token_set(wallet_purchases) \cap token_set(gake_purchases)) >= 2
    /\ Cardinality(QualifyingTargets) = 1
    /\ score_data = NoneScore

\* C2: every shared purchase the scorer counts pairs a purchase of the candidate
\* with a purchase of the target of the same mint, the candidate's strictly
\* earlier by at least 1 hour and at most 168 hours (both ends included), its
\* lead time is the entry of lead_times at the same place, and no target
\* purchase is counted twice; a pair outside the window is in neither list, a
\* pair at either end of the window is.
C2_Window ==
    Scored =>
        /\ Len(lead_times) = Len(shared_purchases)
        /\ \A k \in DOMAIN shared_purchases :
               LET sp == shared_purchases[k]
               IN  /\ \E i \in DOMAIN gake_purchases, j \in DOMAIN wallet_purchases :
                          /\ Qualifies(wallet_purchases[j], gake_purchases[i])
                          /\ sp.token_mint = gake_purchases[i].token_mint
                          /\ sp.gake_timestamp = gake_purchases[i].timestamp
                          /\ sp.wallet_timestamp = wallet_purchases[j].timestamp
                   /\ lead_times[k] = Rat(sp.gake_timestamp - sp.wallet_timestamp, 3600)
                   /\ \A l \in DOMAIN shared_purchases :
                          shared_purchases[l].token_mint = sp.token_mint => l = k
        /\ \A i \in QualifyingTargets :
               \E k \in DOMAIN shared_purchases :
                   shared_purchases[k].token_mint = gake_purchases[i].token_mint

\* C2 witness: a purchase exactly 1 hour and a purchase exactly 168 hours before
\* the target's are counted, a purchase of a third shared token 168 hours and 1
\* second before is not.
C2_Witness ==
    /\ Scored
    /\ Len(shared_purchases) = 2
    /\ \E k \in DOMAIN shared_purchases : lead_times[k] = RInt(1)
    /\ \E k \in DOMAIN shared_purchases : lead_times[k] = RInt(168)
    /\ \E i \in DOMAIN gake_purchases, j \in DOMAIN wallet_purchases :
           /\ wallet_purchases[j].token_mint = gake_purchases[i].token_mint
           /\ gake_purchases[i].timestamp - wallet_purchases[j].timestamp = 604801

\* the shared purchases whose token has buyer times in the baseline
WithBaseline ==
    {k \in DOMAIN shared_purchases :
        /\ shared_purchases[k].token_mint \in DOMAIN token_timing_distributions
        /\ token_timing_distributions[shared_purchases[k].token_mint] # <<>>}

\* the percentage of the baseline buyers of shared purchase k's token whose
\* distance to the target's purchase is within 2 hours of the candidate's
SimilarPct(k) ==
    LET sp == shared_purchases[k]
        all_times == token_timing_distributions[sp.token_mint]
        lead == Abs(sp.wallet_timestamp - sp.gake_timestamp)
        similar == {b \in DOMAIN all_times :
                       Abs(Abs(all_times[b] - sp.gake_timestamp) - lead) < 7200}
    IN  Rat(100 * Cardinality(similar), Len(all_times))

\* the per-purchase value: 100 minus 5 times the percentage when the percentage
\* is below 10, and 0 otherwise (also when there are no buyers to compare with)
PurchaseValue(k) ==
    IF k \in WithBaseline /\ RLt(SimilarPct(k), RInt(10))
    THEN RSub(RInt(100), RMul(RInt(5), SimilarPct(k)))
    ELSE RInt(0)

SumOfValues == RSum([k \in DOMAIN shared_purchases |-> PurchaseValue(k)])

\* C9 as stated: the unlikelihood score is the sum of the per-purchase values
\* divided by the number of shared purchases.
C9_AsStated ==
    (Scored /\ score_data.kind = "CoordinationScore") =>
        RMul(score_data.unlikelihood_score, RInt(Len(shared_purchases))) = SumOfValues

\* C9 amended: the unlikelihood score is the average of the per-purchase values
\* over the shared purchases whose token has a non-empty list of buyer times in
\* the baseline (the divisor is their number, not the number of shared
\* purchases), and 0 when there is none.
C9_Amended ==
    (Scored /\ score_data.kind = "CoordinationScore") =>
        /\ WithBaseline = {} => score_data.unlikelihood_score = RInt(0)
        /\ RMul(score_data.unlikelihood_score, RInt(Cardinality(WithBaseline)))
               = SumOfValues

\* C9 witness: of three shared purchases one has no buyer times, one has a
\* percentage strictly between 0 and 10 (a penalty is taken off 100) and one a
\* percentage of 10 or more (value 0).
C9_Witness ==
    /\ Scored
    /\ score_data.kind = "CoordinationScore"
    /\ \E k \in DOMAIN shared_purchases : k \notin WithBaseline
    /\ \E k \in WithBaseline :
           RLt(RInt(0), SimilarPct(k)) /\ RLt(SimilarPct(k), RInt(10))
    /\ \E k \in WithBaseline : RLe(RInt(10), SimilarPct(k))

InRange(x) == RLe(RInt(0), x) /\ RLe(x, RInt(100))

\* C10: the overlap score, the lead-time consistency score, the unlikelihood
\* score and the final weighted score of every CoordinationScore lie in 0..100.
C10_Range ==
    (Scored /\ score_data.kind = "CoordinationScore") =>
        /\ InRange(score_data.overlap_score)
        /\ InRange(score_data.lead_consistency_score)
        /\ InRange(score_data.unlikelihood_score)
        /\ InRange(score_data.final_score)

\* C10 witness: a candidate whose three sub-scores and final score are all 100.
C10_Witness ==
    /\ Scored
    /\ score_data.kind = "CoordinationScore"
    /\ score_data.overlap_score = RInt(100)
    /\ score_data.lead_consistency_score = RInt(100)
    /\ score_data.unlikelihood_score = RInt(100)
    /\ score_data.final_score = RInt(100)

(***************************************************************************)
(* SpecOverlap: pairs of token sets are built and scored one after another;*)
(* prev_overlap remembers the call before the current one (at first, a     *)
(* call with no overlap).  The target's set is {1..n}: the score depends   *)
(* on the sets only through the sizes of gake_tokens and the intersection. *)
(***************************************************************************)
OverlapMints == 1..NumOverlapMints

InitOverlap == LeadAtRest /\ OverlapAtRest /\ ScoreAtRest /\ ExtractAtRest /\ RunAtRest /\ IoAtRest /\ LaterAtRest

OverlapAddTarget ==
    /\ overlap_pc = "input"
    /\ Cardinality(gake_tokens) < NumOverlapMints
    /\ gake_tokens' = gake_tokens \cup {Cardinality(gake_tokens) + 1}
    /\ UNCHANGED <<wallet_tokens, overlap_score, overlap_pc, prev_overlap>>
    /\ UNCHANGED <<leadVars, scoreVars, extractVars, runVars, ioVars, laterVars>>

OverlapAddWallet(m) ==
    /\ overlap_pc = "input"
    /\ m \notin wallet_tokens
    /\ wallet_tokens' = wallet_tokens \cup {m}
    /\ UNCHANGED <<gake_tokens, overlap_score, overlap_pc, prev_overlap>>
    /\ UNCHANGED <<leadVars, scoreVars, extractVars, runVars, ioVars, laterVars>>

OverlapScore ==
    /\ overlap_pc = "input"
    /\ overlap_score' = calculate_overlap_score(wallet_tokens, gake_tokens)
    /\ overlap_pc' = "scored"
    /\ UNCHANGED <<wallet_tokens, gake_tokens, prev_overlap>>
    /\ UNCHANGED <<leadVars, scoreVars, extractVars, runVars, ioVars, laterVars>>

\* the overlap percentage of the scored pair (0 when the target holds nothing)
OverlapPct ==
    IF gake_tokens = {} THEN RInt(0)
    ELSE overlap_percentage(Cardinality(wallet_tokens \cap gake_tokens),
                            Cardinality(gake_tokens))

OverlapReturn ==
    /\ overlap_pc = "scored"
    /\ prev_overlap' = [pct |-> OverlapPct, score |-> overlap_score]
    /\ wallet_tokens' = {}
    /\ gake_tokens' = {}
    /\ overlap_score' = None
    /\ overlap_pc' = "input"
    /\ UNCHANGED <<leadVars, scoreVars, extractVars, runVars, ioVars, laterVars>>

NextOverlap ==
    \/ OverlapAddTarget
    \/ \E m \in OverlapMints : OverlapAddWallet(m)
    \/ OverlapScore
    \/ OverlapReturn

SpecOverlap == InitOverlap /\ [][NextOverlap]_vars

\* C8 as stated: the score is min(100, k * p) for one multiplier k, the same for
\* every p: the k that an earlier uncapped score fixes (its score / its p) gives
\* the score of the next call.
C8_AsStated ==
    (/\ overlap_pc = "scored"
     /\ RLt(RInt(0), prev_overlap.pct)
     /\ RLt(prev_overlap.score, RInt(100))) =>
        overlap_score =
            RMin(RInt(100), RMul(RDiv(prev_overlap.score, prev_overlap.pct), OverlapPct))

\* C8 amended: with p the percentage of the target's tokens the candidate also
\* holds, the score is min(100, 5 * p) when p >= 15 and 2 * p when p < 15 (and 0
\* when the target holds no token).
C8_Amended ==
    overlap_pc = "scored" =>
        /\ RLe(RInt(15), OverlapPct) =>
               overlap_score = RMin(RInt(100), RMul(RInt(5), OverlapPct))
        /\ RLt(OverlapPct, RInt(15)) => overlap_score = RMul(RInt(2), OverlapPct)

\* C8 witness: after a call with 0 < p < 15 (scored 2 * p), a call with
\* 15 <= p < 20 is scored 5 * p, below the cap.
C8_Witness ==
    /\ overlap_pc = "scored"
    /\ RLt(RInt(0), prev_overlap.pct)
    /\ RLt(prev_overlap.pct, RInt(15))
    /\ prev_overlap.score = RMul(RInt(2), prev_overlap.pct)
    /\ RLe(RInt(15), OverlapPct)
    /\ RLt(OverlapPct, RInt(20))
    /\ overlap_score = RMul(RInt(5), OverlapPct)

(***************************************************************************)
(* SpecLead: lists of lead times are built and scored one after another;   *)
(* prev_lead remembers the call before the current one (at first, a call   *)
(* on the empty list).                                                     *)
(***************************************************************************)
\* time differences (seconds) the lists are built from: 1, 3, 5, 13, 25 hours
LeadSeconds == {3600, 10800, 18000, 46800, 90000}

InitLead == LeadAtRest /\ OverlapAtRest /\ ScoreAtRest /\ ExtractAtRest /\ RunAtRest /\ IoAtRest /\ LaterAtRest

LeadAppend(s) ==
    /\ lead_pc = "input"
    /\ Len(shared_token_timings) < MaxLeadTimes
    /\ shared_token_timings' = Append(shared_token_timings, Hours(s))
    /\ UNCHANGED <<lead_score, lead_pc, prev_lead>>
    /\ UNCHANGED <<overlapVars, scoreVars, extractVars, runVars, ioVars, laterVars>>

LeadScore ==
    /\ lead_pc = "input"
    /\ lead_score' = calculate_lead_time_consistency(shared_token_timings)
    /\ lead_pc' = "scored"
    /\ UNCHANGED <<shared_token_timings, prev_lead>>
    /\ UNCHANGED <<overlapVars, scoreVars, extractVars, runVars, ioVars, laterVars>>

LeadReturn ==
    /\ lead_pc = "scored"
    /\ prev_lead' = [count |-> Len(shared_token_timings),
                     variance |-> IF Len(shared_token_timings) < 2 THEN RInt(0)
                                  ELSE variance(shared_token_timings),
                     score |-> lead_score]
    /\ shared_token_timings' = <<>>
    /\ lead_score' = None
    /\ lead_pc' = "input"
    /\ UNCHANGED <<overlapVars, scoreVars, extractVars, runVars, ioVars, laterVars>>

NextLead ==
    \/ \E s \in LeadSeconds : LeadAppend(s)
    \/ LeadScore
    \/ LeadReturn

SpecLead == InitLead /\ [][NextLead]_vars

\* a call of calculate_lead_time_consistency on two or more lead times has returned
LeadScored == lead_pc = "scored" /\ Len(shared_token_timings) >= 2

\* the square of the standard deviation of the scored list, in hours squared
LeadVariance == variance(shared_token_timings)

\* C6 as stated: 100 for a standard deviation <= 2 hours, 0 for one >= 12 hours,
\* and between them the line through (2, 100) and (12, 0), 120 - 10 * std_dev
\* (compared in thousandths, within the rounding of std_dev).
C6_AsStated ==
    LeadScored =>
        /\ RLe(LeadVariance, RInt(4)) => lead_score = RInt(100)
        /\ RLe(RInt(144), LeadVariance) => lead_score = RInt(0)
        /\ (RLt(RInt(4), LeadVariance) /\ RLt(LeadVariance, RInt(144))) =>
               LET onLine == Rat(120000 - 10 * stdev(shared_token_timings), 1000)
               IN  RLe(RAbs(RSub(lead_score, onLine)), Rat(10, 1000))

\* C6 amended: the score is 100 for a standard deviation strictly below 2 hours,
\* 0 for one of 12 hours or more, and 100 - 7 * std_dev from 2 hours (where it
\* is 86) up to but excluding 12: with t = (100 - score) / 7, t <= std_dev <
\* t + 0.001, stated on the squares.
C6_Amended ==
    LeadScored =>
        /\ RLt(LeadVariance, RInt(4)) => lead_score = RInt(100)
        /\ RLe(RInt(144), LeadVariance) => lead_score = RInt(0)
        /\ (RLe(RInt(4), LeadVariance) /\ RLt(LeadVariance, RInt(144))) =>
               LET t == RDiv(RSub(RInt(100), lead_score), RInt(7))
                   u == RAdd(t, Rat(1, 1000))
               IN  /\ RLe(RInt(2), t)
                   /\ RLe(RMul(t, t), LeadVariance)
                   /\ RLt(LeadVariance, RMul(u, u))

\* C6 witness: a list whose standard deviation is exactly 2 hours was scored 86,
\* after a list with a standard deviation of 12 hours or more was scored 0.
C6_Witness ==
    /\ LeadScored
    /\ LeadVariance = RInt(4)
    /\ lead_score = RInt(86)
    /\ prev_lead.count >= 2
    /\ RLe(RInt(144), prev_lead.variance)
    /\ prev_lead.score = RInt(0)

\* C7: of two scored lists of two or more lead times, the one with the larger
\* standard deviation never scores higher; and a list with standard deviation 0
\* scores 100.
C7_Monotone ==
    LeadScored =>
        /\ LeadVariance = RInt(0) => lead_score = RInt(100)
        /\ prev_lead.count >= 2 =>
               /\ RLe(prev_lead.variance, LeadVariance) => RLe(lead_score, prev_lead.score)
               /\ RLe(LeadVariance, prev_lead.variance) => RLe(prev_lead.score, lead_score)

\* C7 witness: after a list with standard deviation 0 scored 100, a list with a
\* larger deviation, inside the sloped part, scored strictly lower.
C7_Witness ==
    /\ LeadScored
    /\ prev_lead.count >= 2
    /\ prev_lead.variance = RInt(0)
    /\ prev_lead.score = RInt(100)
    /\ RLe(RInt(4), LeadVariance)
    /\ RLt(lead_score, prev_lead.score)
    /\ RLt(RInt(0), lead_score)

(***************************************************************************)
(* SpecExtract: get_token_purchases(wallet, max_tokens) going through the  *)
(* transactions get_wallet_transactions(wallet, max_tokens * 2) returned,  *)
(* one pass of its loops per step.  The transactions are the environment's *)
(* choice: each touches up to MaxEntries token accounts, of the wallet or  *)
(* of somebody else, whose balance rose, stayed or fell; a failed          *)
(* transaction changes no token balance.                                   *)
(***************************************************************************)
BalanceChanges == {<<1, 2>>, <<2, 2>>, <<3, 2>>}

BlockTimes == {100, 200}

TokenAccounts ==
    [mint : ExtractMints, owner : {SubjectWallet, OtherWallet}, change : BalanceChanges]

\* the entry of preTokenBalances and of postTokenBalances of one token account
pre_balance_entry(account, index) ==
    [accountIndex |-> index, mint |-> account.mint,
     owner |-> account.owner, uiAmount |-> account.change[1]]

post_balance_entry(account, index) ==
    [accountIndex |-> index, mint |-> account.mint,
     owner |-> account.owner, uiAmount |-> account.change[2]]

\* the amount of the post-balance entry is above the pre-balance amount
increased(post_balance, pre_balances) ==
    /\ post_balance.uiAmount # NoAmount
    /\ post_balance.uiAmount > pre_amount_of(pre_balances, post_balance)

InitExtract == LeadAtRest /\ OverlapAtRest /\ ScoreAtRest /\ ExtractAtRest /\ RunAtRest /\ IoAtRest /\ LaterAtRest

\* the call: max_tokens is the caller's
StartExtract(cap) ==
    /\ extract_pc = "rest"
    /\ extract_pc' = "loop"
    /\ max_tokens' = cap
    /\ UNCHANGED <<tx_count, tx_err, tx_time, tx_left, entry_count, purchases, seen_tokens,
                   purchase_owners, first_increase, wallet_increases>>
    /\ UNCHANGED <<leadVars, overlapVars, scoreVars, runVars, ioVars, laterVars>>

\* the next transaction of the batch; the loop does not look into it once
\* "if len(purchases) >= max_tokens: break" has left, nor when it has failed
NextTransaction(err, block_time) ==
    /\ extract_pc = "loop"
    /\ tx_count < max_tokens * 2
    /\ extract_pc' = "entries"
    /\ tx_count' = tx_count + 1
    /\ tx_err' = err
    /\ tx_time' = block_time
    /\ tx_left' = (Len(purchases) >= max_tokens \/ err)
    /\ entry_count' = 0
    /\ UNCHANGED <<max_tokens, purchases, seen_tokens,
                   purchase_owners, first_increase, wallet_increases>>
    /\ UNCHANGED <<leadVars, overlapVars, scoreVars, runVars, ioVars, laterVars>>

\* the next post-balance entry of the transaction: one pass of the loop over
\* post_balances, unless the loop has left at "break  # Move to next transaction"
PostBalanceEntry(account) ==
    LET index == entry_count + 1
        post_balance == post_balance_entry(account, index)
        pre_balances == <<pre_balance_entry(account, index)>>
        found == ~tx_left /\ found_purchase(post_balance, pre_balances, seen_tokens)
        risen == ~tx_err /\ increased(post_balance, pre_balances)
    IN  /\ extract_pc = "entries"
        /\ entry_count < MaxEntries
        /\ tx_err => account.change[1] = account.change[2]
        /\ entry_count' = index
        /\ purchases' =
               IF found
               THEN Append(purchases, purchase_from(post_balance, pre_balances, tx_time, tx_count))
               ELSE purchases
        /\ seen_tokens' = IF found THEN seen_tokens \cup {post_balance.mint} ELSE seen_tokens
        /\ tx_left' = (tx_left \/ found)
        /\ purchase_owners' =
               IF found THEN Append(purchase_owners, post_balance.owner) ELSE purchase_owners
        /\ first_increase' =
               IF risen /\ first_increase[account.mint] = 0
               THEN [first_increase EXCEPT ![account.mint] = tx_count]
               ELSE first_increase
        /\ wallet_increases' =
               IF risen /\ account.owner = SubjectWallet
               THEN wallet_increases \cup {account.mint}
               ELSE wallet_increases
        /\ UNCHANGED <<max_tokens, tx_count, tx_err, tx_time, extract_pc>>
        /\ UNCHANGED <<leadVars, overlapVars, scoreVars, runVars, ioVars, laterVars>>

\* the transaction has no further token account
EndTransaction ==
    /\ extract_pc = "entries"
    /\ extract_pc' = "loop"
    /\ UNCHANGED <<max_tokens, tx_count, tx_err, tx_time, tx_left, entry_count, purchases,
                   seen_tokens, purchase_owners, first_increase, wallet_increases>>
    /\ UNCHANGED <<leadVars, overlapVars, scoreVars, runVars, ioVars, laterVars>>

\* the batch has no further transaction: return purchases[:max_tokens]
ReturnPurchases ==
    /\ extract_pc = "loop"
    /\ extract_pc' = "done"
    /\ purchases' = truncated(purchases, max_tokens)
    /\ UNCHANGED <<max_tokens, tx_count, tx_err, tx_time, tx_left, entry_count, seen_tokens,
                   purchase_owners, first_increase, wallet_increases>>
    /\ UNCHANGED <<leadVars, overlapVars, scoreVars, runVars, ioVars, laterVars>>

NextExtract ==
    \/ \E cap \in 1..MaxTokensArg : StartExtract(cap)
    \/ \E err \in BOOLEAN, block_time \in BlockTimes : NextTransaction(err, block_time)
    \/ \E account \in TokenAccounts : PostBalanceEntry(account)
    \/ EndTransaction
    \/ ReturnPurchases

SpecExtract == InitExtract /\ [][NextExtract]_vars

Returned == extract_pc = "done"

\* the events of the list for one mint
EventsOf(mint) == {i \in DOMAIN purchases : purchases[i].token_mint = mint}

\* C3, as the spec states it, read with the exceptions the spec makes elsewhere
\* (the wrapped-native mint is skipped, the list is capped): when the extractor
\* returns a list shorter than max_tokens, every mint other than wSOL whose
\* balance rose on an account of the wallet in a transaction of the batch has
\* exactly one PurchaseEvent, and every other mint has none.
C3_AsStated ==
    (Returned /\ Len(purchases) < max_tokens) =>
        \A mint \in ExtractMints \ {wsol_address} :
            IF mint \in wallet_increases
            THEN Cardinality(EventsOf(mint)) = 1
            ELSE EventsOf(mint) = {}

\* C4, as the spec states it: every PurchaseEvent of the list was made from a
\* post-balance entry whose owner is the wallet the extractor was called for.
C4_AsStated ==
    \A i \in DOMAIN purchase_owners : purchase_owners[i] = SubjectWallet

\* C5, as the spec states it: in the returned list no two events have the same
\* token mint, and the event of a mint carries the signature of the first
\* transaction of the batch, in fetch order, in which a balance of that mint rose.
C5_AsStated ==
    Returned =>
        /\ \A i, j \in DOMAIN purchases :
               purchases[i].token_mint = purchases[j].token_mint => i = j
        /\ \A i \in DOMAIN purchases :
               purchases[i].signature = first_increase[purchases[i].token_mint]

(***************************************************************************)
(* SpecRun: run_complete_analysis from the fetch of the target's purchases *)
(* to the report.  What the fetches return is the environment's choice:    *)
(* the target's purchases, the baseline build_baseline_data collects, and  *)
(* for each of the wallets of potential_wallets its purchases, or nothing  *)
(* when its fetch failed.  The target is not among the holders here.       *)
(***************************************************************************)
\* what get_token_purchases(target_wallet) may return: nothing, A and B, or A, B
\* and C, bought at TargetTime
TargetHistories == {SubSeq(Mints, 1, n) : n \in {0, 2, 3}}

\* the buyer times of a token the target bought at gake_time, when its holders
\* could be fetched: eleven buyers, one of them 3 hours before and ten 100 hours later
crowd_times(gake_time) ==
    <<gake_time - 10800>> \o [i \in 1..10 |-> gake_time + 360000]

\* per sampled wallet, how many of the target's tokens it holds
SampleOverlaps == { <<>>, <<0, 0>>, <<2, 1, 2>> }

\* a candidate's purchases, each a mint and how long before the target it was bought
CandidateLeads ==
    { <<>>,
      << <<"A", 3600>>, <<"B", 7200>> >>,
      << <<"A", 14400>>, <<"B", 18000>> >>,
      << <<"A", 25200>>, <<"B", 28800>> >>,
      << <<"A", 32400>>, <<"B", 36000>> >>,
      << <<"B", 7200>>, <<"C", 3600>> >>,
      << <<"A", 3600>>, <<"B", 61200>> >>,
      << <<"A", -3600>>, <<"B", -3600>> >> }

\* (a variant in which a wallet whose fetch gave nothing is scored on purchases
\* left from another wallet)
purchases_of_kept(wallet, leads) ==
    LET given == IF leads = <<>> THEN << <<"A", 3600>>, <<"B", 7200>> >> ELSE leads
    IN  [k \in DOMAIN given |->
            [token_mint |-> given[k][1],
             timestamp |-> TargetTime[given[k][1]] - given[k][2],
             signature |-> <<wallet, k>>]]

\* the list get_token_purchases returns for a wallet with these purchases
purchases_of(wallet, leads) ==
    [k \in DOMAIN leads |->
        [token_mint |-> leads[k][1],
         timestamp |-> TargetTime[leads[k][1]] - leads[k][2],
         signature |-> <<wallet, k>>]]

\* baseline_data
baseline_data == [token_timing_distributions |-> token_timing_distributions,
                  random_wallet_overlaps |-> random_wallet_overlaps]

InitRun == LeadAtRest /\ OverlapAtRest /\ ScoreAtRest /\ ExtractAtRest /\ RunAtRest /\ IoAtRest /\ LaterAtRest

\* what raw_txs = get_wallet_transactions(target_wallet, 10) may hold when no
\* purchase was found: nothing, or a first transaction without 'meta', with
\* "meta": null (the RPC has no status metadata for it), or with a meta object
SampleMetas == {"no transactions", "absent", "null", "object"}

\* the debug branch raises: 'preTokenBalances' in sample_tx['meta'] with meta None
debug_raises(sample_meta) == sample_meta = "null"

\* gake_purchases = get_token_purchases(target_wallet, 100); "if not
\* gake_purchases:" the raw transactions are fetched and looked at, then "return"
FetchTarget(mints, sample_meta) ==
    /\ run_pc = "start"
    /\ mints # <<>> => sample_meta = "object"
    /\ gake_purchases' =
           [k \in DOMAIN mints |->
               [token_mint |-> mints[k], timestamp |-> TargetTime[mints[k]],
                signature |-> <<"GAKE", k>>]]
    /\ run_pc' = IF mints # <<>> THEN "baseline"
                 ELSE IF debug_raises(sample_meta) THEN "raised"
                 ELSE "returned"
    /\ UNCHANGED <<random_wallet_overlaps, potential_wallets, scored_wallets,
                   detailed_findings, network_analysis, report, fetched, failed_wallets>>
    /\ UNCHANGED <<token_timing_distributions, wallet_purchases, shared_purchases,
                   lead_times, score_data, score_pc>>
    /\ UNCHANGED <<leadVars, overlapVars, extractVars, ioVars, laterVars>>

\* build_baseline_data(gake_purchases), and the holders become potential_wallets
BuildBaseline(crowded, sample) ==
    /\ run_pc = "baseline"
    /\ token_timing_distributions' =
           [mint \in token_set(gake_purchases) |->
               IF crowded THEN crowd_times(TargetTime[mint]) ELSE <<>>]
    /\ random_wallet_overlaps' =
           [k \in DOMAIN sample |->
               overlap_percentage(sample[k], Cardinality(token_set(gake_purchases)))]
    /\ potential_wallets' = PotentialWallets
    /\ run_pc' = "scoring"
    /\ UNCHANGED <<scored_wallets, detailed_findings, network_analysis, report,
                   fetched, failed_wallets>>
    /\ UNCHANGED <<gake_purchases, wallet_purchases, shared_purchases,
                   lead_times, score_data, score_pc>>
    /\ UNCHANGED <<leadVars, overlapVars, extractVars, ioVars, laterVars>>

\* one pass of the loop over potential_wallets: the wallet's purchases are
\* fetched (an empty list when the fetch failed), scored, and flagged from 40 up
ScoreWallet(wallet, leads, failed) ==
    /\ run_pc = "scoring"
    /\ potential_wallets # <<>>
    /\ wallet = Head(potential_wallets)
    /\ failed => leads = <<>>
    /\ \E data \in {coordination_score_data(wallet, purchases_of(wallet, leads),
                                            gake_purchases, baseline_data)} :
        /\ potential_wallets' = Tail(potential_wallets)
        /\ fetched' = [fetched EXCEPT ![Len(PotentialWallets) - Len(potential_wallets) + 1] = leads]
        /\ failed_wallets' = IF failed THEN failed_wallets \cup {wallet} ELSE failed_wallets
        /\ scored_wallets' =
               IF flagged(data)
               THEN Append(scored_wallets, [wallet |-> wallet, data |-> data])
               ELSE scored_wallets
        /\ detailed_findings' =
               IF flagged(data)
               THEN detailed_findings \o primary_findings(wallet, data)
               ELSE detailed_findings
        /\ UNCHANGED <<run_pc, random_wallet_overlaps, network_analysis, report>>
        /\ UNCHANGED scoreVars
        /\ UNCHANGED <<leadVars, overlapVars, extractVars, ioVars, laterVars>>

\* phase 3: the wallets from 70 up go to analyze_network_patterns, if there are any
NetworkAnalysis ==
    /\ run_pc = "scoring"
    /\ potential_wallets = <<>>
    /\ network_analysis' =
           IF high_score_of(scored_wallets) # <<>>
           THEN analyze_network_patterns(high_score_of(scored_wallets))
           ELSE <<>>
    /\ run_pc' = "report"
    /\ UNCHANGED <<random_wallet_overlaps, potential_wallets, scored_wallets,
                   detailed_findings, report, fetched, failed_wallets>>
    /\ UNCHANGED scoreVars
    /\ UNCHANGED <<leadVars, overlapVars, extractVars, ioVars, laterVars>>

\* generate_report(scored_wallets, network_analysis, gake_purchases)
GenerateReport ==
    /\ run_pc = "report"
    /\ report' = generate_report(scored_wallets, network_analysis)
    /\ run_pc' = "returned"
    /\ UNCHANGED <<random_wallet_overlaps, potential_wallets, scored_wallets,
                   detailed_findings, network_analysis, fetched, failed_wallets>>
    /\ UNCHANGED scoreVars
    /\ UNCHANGED <<leadVars, overlapVars, extractVars, ioVars, laterVars>>

NextRun ==
    \/ \E mints \in TargetHistories, sample_meta \in SampleMetas :
           FetchTarget(mints, sample_meta)
    \/ \E crowded \in BOOLEAN, sample \in SampleOverlaps : BuildBaseline(crowded, sample)
    \/ \E wallet \in {PotentialWallets[k] : k \in DOMAIN PotentialWallets},
          leads \in CandidateLeads, failed \in BOOLEAN :
           ScoreWallet(wallet, leads, failed)
    \/ NetworkAnalysis
    \/ GenerateReport

SpecRun == InitRun /\ [][NextRun]_vars

\* the wallets the loop over potential_wallets has gone through
Processed ==
    IF run_pc \in {"start", "baseline", "raised"} THEN {}
    ELSE {PotentialWallets[k] : k \in 1..(Len(PotentialWallets) - Len(potential_wallets))}

\* what the fetch of a processed wallet gave
FetchedOf(wallet) == fetched[CHOOSE k \in DOMAIN PotentialWallets : PotentialWallets[k] = wallet]

\* the item of scored_wallets for a wallet, if it has been flagged
FlaggedItems(wallet) == {k \in DOMAIN scored_wallets : scored_wallets[k].wallet = wallet}

\* the candidate of the example: A bought 3600 s and B 7200 s before the target
ExampleLeads == << <<"A", 3600>>, <<"B", 7200>> >>

\* C11: with a target that bought A at 1000 and B at 2000, a candidate that bought
\* A 3600 s and B 7200 s earlier gets a score with 2 shared purchases, lead
\* times of 1 and 2 hours, a lead-consistency score of 100 and a final score
\* above 40 (so it is among the flagged wallets).
C11_Example ==
    \A wallet \in Processed :
        FetchedOf(wallet) = ExampleLeads =>
            \E k \in FlaggedItems(wallet) :
                LET data == scored_wallets[k].data
                IN  /\ data.shared_token_count = 2
                    /\ Len(data.shared_purchases) = 2
                    /\ lead_times_of(data.shared_purchases) = <<RInt(1), RInt(2)>>
                    /\ data.lead_consistency_score = RInt(100)
                    /\ RLt(RInt(40), data.final_score)

\* the example's target (A and B only) and candidate have been scored
C11_Witness ==
    /\ Len(gake_purchases) = 2
    /\ gake_purchases[1].token_mint = "A" /\ gake_purchases[1].timestamp = 1000
    /\ gake_purchases[2].token_mint = "B" /\ gake_purchases[2].timestamp = 2000
    /\ \E wallet \in Processed :
           /\ FetchedOf(wallet) = ExampleLeads
           /\ \E k \in FlaggedItems(wallet) :
                  scored_wallets[k].data.lead_consistency_score = RInt(100)

\* the score a processed wallet's own purchases give against the target and the baseline
OwnScore(wallet) ==
    coordination_score_data(wallet, purchases_of(wallet, FetchedOf(wallet)),
                            gake_purchases, baseline_data)

\* the target purchases a purchase of the wallet qualifies for
SharedWithTarget(wallet) ==
    {i \in DOMAIN gake_purchases :
        \E j \in DOMAIN FetchedOf(wallet) :
            Qualifies(purchases_of(wallet, FetchedOf(wallet))[j], gake_purchases[i])}

\* the wallets in the flagged set, in the PRIMARY_COORDINATION findings and, once
\* it is written, in the lists and files of the report
Appearing ==
    {scored_wallets[k].wallet : k \in DOMAIN scored_wallets}
    \cup {detailed_findings[k].coordinated_wallet : k \in DOMAIN detailed_findings}
    \cup (IF report.saved
          THEN {report.strong_coordination[k] : k \in DOMAIN report.strong_coordination}
               \cup {report.possible_coordination[k] : k \in DOMAIN report.possible_coordination}
               \cup report.coordination_scores \cup report.high_confidence
          ELSE {})

\* C12: a wallet appears in the flagged set, the PRIMARY_COORDINATION findings or
\* the report only if it has been scored, its CoordinationScore is not null and
\* its final score is at least 40; a wallet with no shared purchase never appears.
C12_OnlyFlagged ==
    /\ \A wallet \in Appearing :
           /\ wallet \in Processed
           /\ \E own \in {OwnScore(wallet)} :
                  /\ own.kind = "CoordinationScore"
                  /\ RLe(RInt(40), own.final_score)
    /\ \A wallet \in Processed : SharedWithTarget(wallet) = {} => wallet \notin Appearing

\* the report is written with a flagged wallet in it, while a wallet with a score
\* below 40 and a wallet without a shared purchase were gone through
C12_Witness ==
    /\ run_pc = "returned"
    /\ report.saved
    /\ report.coordination_scores # {}
    /\ \E wallet \in Processed :
           /\ wallet \notin Appearing
           /\ \E own \in {OwnScore(wallet)} :
                  /\ own.kind = "CoordinationScore"
                  /\ RLt(own.final_score, RInt(40))
    /\ \E wallet \in Processed :
           /\ FetchedOf(wallet) # <<>>
           /\ SharedWithTarget(wallet) = {}
           /\ wallet \notin Appearing

\* phase 3 is over
Correlated == run_pc \in {"report", "returned"}

\* the wallets given to analyze_network_patterns, when it is called with at least 2
GivenToCorrelator ==
    LET high == high_score_of(scored_wallets)
    IN  IF Len(high) < 2 THEN {} ELSE {high[k].wallet : k \in DOMAIN high}

\* the shared-with-target purchases of a flagged wallet
SharedOf(wallet) == scored_wallets[CHOOSE k \in FlaggedItems(wallet) : TRUE].data.shared_purchases

\* the mints both wallets have among their shared-with-target purchases
CommonMints(w1, w2) ==
    {mint \in DOMAIN TargetTime :
        /\ \E k \in DOMAIN SharedOf(w1) : SharedOf(w1)[k].token_mint = mint
        /\ \E k \in DOMAIN SharedOf(w2) : SharedOf(w2)[k].token_mint = mint}

\* when the wallet itself bought the mint, in seconds
BoughtAt(wallet, mint) ==
    LET shared == SharedOf(wallet)
    IN  shared[CHOOSE k \in DOMAIN shared : shared[k].token_mint = mint].wallet_timestamp

\* the sum over the common mints of the seconds between the two wallets' purchases
RECURSIVE SecondsApart(_, _, _)
SecondsApart(w1, w2, mints) ==
    IF mints = {} THEN 0
    ELSE LET mint == CHOOSE m \in mints : TRUE
         IN  Abs(BoughtAt(w1, mint) - BoughtAt(w2, mint)) + SecondsApart(w1, w2, mints \ {mint})

\* the edges recorded between two wallets, in either direction
EdgesBetween(w1, w2) ==
    {<<i, k>> \in (DOMAIN network_analysis) \X (1..Len(PotentialWallets)) :
        /\ k \in DOMAIN network_analysis[i].correlated_wallets
        /\ {network_analysis[i].wallet, network_analysis[i].correlated_wallets[k].wallet}
               = {w1, w2}}

\* C13: for every two distinct wallets given to the Network Correlator, an edge is
\* recorded if and only if they have at least 2 mints in common among their
\* shared-with-target purchases and the mean of the absolute differences of their
\* own purchase times over these mints is strictly below 6 hours; the edge is
\* annotated with the number of common mints and that mean.
C13_EdgeIff ==
    Correlated =>
        \A w1, w2 \in GivenToCorrelator :
            w1 # w2 =>
                LET common == CommonMints(w1, w2)
                    apart == SecondsApart(w1, w2, common)
                    edges == EdgesBetween(w1, w2)
                IN  /\ edges # {} <=>
                           (Cardinality(common) >= 2 /\ apart < 6 * 3600 * Cardinality(common))
                    /\ \A e \in edges :
                           LET edge == network_analysis[e[1]].correlated_wallets[e[2]]
                           IN  /\ edge.shared_tokens = Cardinality(common)
                               /\ edge.avg_time_difference_hours
                                      = Rat(apart, 3600 * Cardinality(common))

\* two wallets 3 hours apart on both of their 2 common mints have an edge
\* (shared 2, average 3 hours), while two wallets 8 hours apart have none
C13_Witness ==
    /\ Correlated
    /\ \E w1, w2 \in GivenToCorrelator :
           /\ w1 # w2
           /\ Cardinality(CommonMints(w1, w2)) = 2
           /\ SecondsApart(w1, w2, CommonMints(w1, w2)) = 2 * 3 * 3600
           /\ \E e \in EdgesBetween(w1, w2) :
                  /\ network_analysis[e[1]].correlated_wallets[e[2]].shared_tokens = 2
                  /\ network_analysis[e[1]].correlated_wallets[e[2]].avg_time_difference_hours
                         = RInt(3)
    /\ \E w1, w2 \in GivenToCorrelator :
           /\ w1 # w2
           /\ Cardinality(CommonMints(w1, w2)) = 2
           /\ SecondsApart(w1, w2, CommonMints(w1, w2)) = 2 * 8 * 3600
           /\ EdgesBetween(w1, w2) = {}

\* the wallets at the two ends of the recorded edges
Endpoints ==
    UNION {{network_analysis[i].wallet} \cup
           {network_analysis[i].correlated_wallets[k].wallet :
               k \in DOMAIN network_analysis[i].correlated_wallets} :
           i \in {j \in DOMAIN network_analysis :
                      network_analysis[j].correlated_wallets # <<>>}}

\* C14: the edges the Network Correlator records form an undirected simple graph
\* over the high-scoring wallets: two wallets have at most one edge between them
\* (in whichever direction it is recorded), no wallet has an edge to itself, and
\* each end of an edge is a flagged wallet whose final score is at least 70; the
\* rows of the network file are these edges.
C14_SimpleGraph ==
    Correlated =>
        /\ \A w1, w2 \in Processed : Cardinality(EdgesBetween(w1, w2)) <= 1
        /\ \A w \in Processed : EdgesBetween(w, w) = {}
        /\ \A w \in Endpoints :
               /\ FlaggedItems(w) # {}
               /\ \A k \in FlaggedItems(w) :
                      RLe(RInt(70), scored_wallets[k].data.final_score)
        /\ report.saved =>
               /\ Len(report.network_analysis)
                      = Cardinality({e \in Processed \X Processed : EdgesBetween(e[1], e[2]) # {}}) \div 2
               /\ \A k \in DOMAIN report.network_analysis :
                      EdgesBetween(report.network_analysis[k].wallet_1,
                                   report.network_analysis[k].wallet_2) # {}

\* the report is written with one edge between two wallets scoring 70 or more,
\* and a third wallet, flagged with a score below 70, at no end of an edge
C14_Witness ==
    /\ run_pc = "returned"
    /\ report.saved
    /\ Len(report.network_analysis) = 1
    /\ Cardinality(Endpoints) = 2
    /\ \E k \in DOMAIN scored_wallets :
           /\ RLt(scored_wallets[k].data.final_score, RInt(70))
           /\ scored_wallets[k].wallet \notin Endpoints

\* the baseline has a sample of overlap percentages, all of them 0
ZeroBaseline ==
    /\ random_wallet_overlaps # <<>>
    /\ \A k \in DOMAIN random_wallet_overlaps : random_wallet_overlaps[k] = RInt(0)

\* C15: with a baseline whose sampled overlap percentages are all 0, the 95th
\* percentile the scorer compares with is 0, and every candidate that gets a
\* score and has a nonzero overlap percentage is marked as exceeding the baseline.
C15_ZeroBaseline ==
    ZeroBaseline =>
        /\ percentile_95(random_wallet_overlaps) = RInt(0)
        /\ \A wallet \in Processed :
               \E own \in {OwnScore(wallet)} :
                   (own.kind = "CoordinationScore" /\ RLt(RInt(0), own.overlap_percentage))
                       => own.exceeds_baseline
        /\ \A k \in DOMAIN scored_wallets :
               RLt(RInt(0), scored_wallets[k].data.overlap_percentage)
                   => scored_wallets[k].data.exceeds_baseline

\* with a baseline of zeros a wallet is flagged as exceeding the baseline, and a
\* scored wallet below the flagging threshold exceeds it as well
C15_Witness ==
    /\ ZeroBaseline
    /\ \E k \in DOMAIN scored_wallets : scored_wallets[k].data.exceeds_baseline
    /\ \E wallet \in Processed :
           /\ FlaggedItems(wallet) = {}
           /\ \E own \in {OwnScore(wallet)} :
                  own.kind = "CoordinationScore" /\ own.exceeds_baseline

\* C18: a candidate whose transactions could not be fetched (the fetch gave up
\* after its retries and returned an empty list) gets no CoordinationScore and
\* never appears among the flagged wallets, the findings or the report; the run
\* is not ended by the failure (it goes on with the wallets that are left, then
\* to the report, and returns), and every other candidate is flagged exactly when its own
\* purchases score 40 or more, with exactly the score its own purchases give.
C18_FailedFetchExcluded ==
    /\ \A wallet \in failed_wallets :
           /\ wallet \in Processed
           /\ FetchedOf(wallet) = <<>>
           /\ FlaggedItems(wallet) = {}
           /\ wallet \notin Appearing
           /\ \E own \in {OwnScore(wallet)} : own.kind = "None"
    /\ failed_wallets # {} =>
           /\ run_pc \in {"scoring", "report", "returned"}
           /\ run_pc = "scoring" => potential_wallets = SubSeq(PotentialWallets, Cardinality(Processed) + 1, Len(PotentialWallets))
           /\ \A wallet \in Processed \ failed_wallets :
                  \E own \in {OwnScore(wallet)} :
                      /\ FlaggedItems(wallet) # {} <=> flagged(own)
                      /\ \A k \in FlaggedItems(wallet) : scored_wallets[k].data = own

\* the run has returned with its report written; the fetch of the second wallet
\* failed, and the wallets before and after it were scored and flagged
C18_Witness ==
    /\ run_pc = "returned"
    /\ report.saved
    /\ failed_wallets = {PotentialWallets[2]}
    /\ FlaggedItems(PotentialWallets[1]) # {}
    /\ FlaggedItems(PotentialWallets[3]) # {}
    /\ PotentialWallets[2] \notin report.coordination_scores

\* C20: no run ends with an exception for lack of data: a run whose target has
\* no purchase returns with nothing scored and nothing written, and a candidate
\* with fewer than 2 shared purchases gets the null score.
C20_AsStated ==
    /\ run_pc # "raised"
    /\ (run_pc # "start" /\ gake_purchases = <<>>) =>
           /\ run_pc = "returned"
           /\ scored_wallets = <<>>
           /\ detailed_findings = <<>>
           /\ ~report.saved
    /\ \A wallet \in Processed :
           Cardinality(SharedWithTarget(wallet)) < 2 =>
               \E own \in {OwnScore(wallet)} : own.kind = "None"

(***************************************************************************)
(* SpecFetch: one call of StatisticalCoordinationAnalyzer.get_wallet_         *)
(* transactions.  A step is one HTTP request with what comes back for it   *)
(* and everything the call does up to its next request or its return.     *)
(* The answers are the environment's: any answer may follow any other.     *)
(***************************************************************************)

\* range(self.retry_max), of both loops
\* (a variant with one more round)
attempts_one_more == 0 .. retry_max

attempts == 0 .. (retry_max - 1)

\* "if attempt < self.retry_max - 1:", of both loops
may_retry(n) == n < retry_max - 1

\* the values of the argument limit
Limits == 1 .. MaxSignatures

\* what comes back for the getSignaturesForAddress request: a status other
\* than 200; an exception (the request raises, the body is no JSON, or its
\* result is null and cannot be sliced); a body without 'result'; a list
SignatureAnswers == {"non200", "exception", "no result", "ok"}

\* what comes back for a getTransaction request: the transaction; a status
\* other than 200; a body without a result; an exception
TransactionAnswers == {"ok", "non200", "empty result", "exception"}

\* signatures[:limit]
sliced(n, lim) == IF n < lim THEN n ELSE lim

InitFetch == LeadAtRest /\ OverlapAtRest /\ ScoreAtRest /\ ExtractAtRest /\ RunAtRest /\ IoAtRest /\ LaterAtRest

\* the call, up to its first request
CallFetch(lim) ==
    /\ fetch_pc = "rest"
    /\ fetch_pc' = "signatures"
    /\ limit' = lim
    /\ attempt' = 0
    /\ UNCHANGED <<tx_attempt, signatures, sig_pos, transactions, error_log,
                   sig_requests, tx_requests>>
    /\ UNCHANGED <<retryVars, signalVars, laterVars>>
    /\ UNCHANGED <<leadVars, overlapVars, scoreVars, extractVars, runVars>>

\* "continue" of the outer loop: the next attempt, or "return []" after the loop
NextAttempt ==
    /\ attempt' = attempt + 1
    /\ fetch_pc' = IF attempt + 1 \in attempts THEN "signatures" ELSE "returned"
    /\ UNCHANGED <<tx_attempt, signatures, sig_pos, transactions>>

\* "return []"
ReturnEmpty ==
    /\ fetch_pc' = "returned"
    /\ transactions' = <<>>
    /\ UNCHANGED <<attempt, tx_attempt, signatures, sig_pos>>

\* requests.post(url, json=payload, timeout=30) of the outer loop and what follows
SignaturesRequest(answer, n) ==
    /\ fetch_pc = "signatures"
    /\ answer # "ok" => n = 0
    /\ sig_requests' = sig_requests + 1
    /\ CASE answer = "non200" ->
              /\ IF may_retry(attempt) THEN NextAttempt ELSE ReturnEmpty
              /\ UNCHANGED error_log
         [] answer = "exception" ->
              IF may_retry(attempt)
              THEN NextAttempt /\ UNCHANGED error_log
              ELSE ReturnEmpty /\ error_log' = Append(error_log, "error")
         [] answer = "no result" ->
              ReturnEmpty /\ UNCHANGED error_log
         [] answer = "ok" ->
              /\ signatures' = sliced(n, limit)
              /\ transactions' = <<>>
              /\ IF sliced(n, limit) = 0
                 THEN fetch_pc' = "returned" /\ UNCHANGED <<sig_pos, tx_attempt>>
                 ELSE fetch_pc' = "transactions" /\ sig_pos' = 1 /\ tx_attempt' = 0
              /\ UNCHANGED <<attempt, error_log>>
    /\ UNCHANGED <<limit, tx_requests>>
    /\ UNCHANGED <<retryVars, signalVars, laterVars>>
    /\ UNCHANGED <<leadVars, overlapVars, scoreVars, extractVars, runVars>>

\* the inner loop is through with a signature: the next one, or "return transactions"
NextSignature ==
    IF sig_pos < signatures
    THEN fetch_pc' = "transactions" /\ sig_pos' = sig_pos + 1 /\ tx_attempt' = 0
    ELSE fetch_pc' = "returned" /\ UNCHANGED <<sig_pos, tx_attempt>>

\* requests.post(url, json=tx_payload, timeout=15) of the inner loop and what
\* follows: a transaction is appended and the loop left with "break"; after every
\* other answer, the exception's "continue" included, the loop goes to its next round
TransactionRequest(answer) ==
    /\ fetch_pc = "transactions"
    /\ tx_requests' = [tx_requests EXCEPT ![sig_pos] = @ + 1]
    /\ IF answer = "ok"
       THEN /\ transactions' = Append(transactions, sig_pos)
            /\ NextSignature
       ELSE /\ transactions' = transactions
            /\ IF tx_attempt + 1 \in attempts
               THEN /\ tx_attempt' = tx_attempt + 1
                    /\ UNCHANGED <<fetch_pc, sig_pos>>
               ELSE NextSignature
    /\ UNCHANGED <<limit, attempt, signatures, error_log, sig_requests>>
    /\ UNCHANGED <<retryVars, signalVars, laterVars>>
    /\ UNCHANGED <<leadVars, overlapVars, scoreVars, extractVars, runVars>>

NextFetch ==
    \/ \E lim \in Limits : CallFetch(lim)
    \/ \E answer \in SignatureAnswers, n \in 0..MaxSignatures : SignaturesRequest(answer, n)
    \/ \E answer \in TransactionAnswers : TransactionRequest(answer)

\* the call is a running program: while it can take a step, it takes one
SpecFetch == InitFetch /\ [][NextFetch]_vars /\ WF_vars(NextFetch)

\* the requests of the call so far are within retry_max
RequestsWithinRetryMax ==
    /\ sig_requests <= retry_max
    /\ \A k \in DOMAIN tx_requests : tx_requests[k] <= retry_max

\* C17: in one call of get_wallet_transactions, whatever the answers, the
\* signature-list request is issued at most retry_max (3) times and the request
\* for any one transaction at most retry_max times, and the call returns.
C17_BoundedRequests ==
    /\ [](RequestsWithinRetryMax)
    /\ (fetch_pc # "rest") ~> (fetch_pc = "returned")

\* a call has returned after 3 requests for the signature list and 3 requests
\* for each of two transactions, the second of which it got
C17_Witness ==
    /\ fetch_pc = "returned"
    /\ sig_requests = retry_max
    /\ tx_requests[1] = retry_max
    /\ tx_requests[2] = retry_max
    /\ transactions = <<2>>

(***************************************************************************)
(* SpecRetry: the fetch routines outside the analyzer, each against the    *)
(* same API: WalletScanner.scan_until_target, the funding-trail tracker's  *)
(* get_wallet_transactions and the KOL tracker's get_wallet_transactions.  *)
(* The API answers as it likes until it goes down; from then on every      *)
(* request is answered with HTTP 429, a request error or an empty result.  *)
(* A step is one request with what follows it up to the next request, the  *)
(* next sleep or the return.                                               *)
(***************************************************************************)

\* self.target_count of WalletScanner (20 in the program)
TargetCount == 3

\* the most pages the funding-trail fetch is given full
MaxPages == 2

\* max_retries of the KOL tracker's get_wallet_transactions
max_retries == 3

\* the first signers of the transactions the scanner looks at
Signers == {"w1", "w2", "w3", "w4"}

\* what get_recent_signatures returns: the signatures of a batch, each given here
\* by what get_wallet_from_transaction finds for it (a signer, or None)
SignatureBatches ==
    { <<>>, <<"w1">>, <<"w1", "w2">>, <<"w2", "w3">>, <<"None", "w4">>, <<"w3", "w4", "w1">> }

\* the answers of a failing API, and the further answers of a working one, to a
\* request of the funding-trail fetch and of the KOL tracker's fetch
FailingAnswers == {"429", "request error", "empty"}

TrailAnswers == FailingAnswers \cup {"full page", "last page", "cutoff"}

KolAnswers == FailingAnswers \cup {"timeout", "transactions"}

InitRetry == LeadAtRest /\ OverlapAtRest /\ ScoreAtRest /\ ExtractAtRest /\ RunAtRest /\ IoAtRest /\ LaterAtRest

\* from now on the API fails persistently
ApiGoesDown ==
    /\ api = "ok"
    /\ api' = "failing"
    /\ UNCHANGED <<scan_pc, found_wallets, batch, trail_pc, page, all_transactions,
                   kol_pc, kol_attempt, kol_result>>
    /\ UNCHANGED <<fetchVars, signalVars, laterVars>>
    /\ UNCHANGED <<leadVars, overlapVars, scoreVars, extractVars, runVars>>

\* "while len(self.found_wallets) < self.target_count:"
scan_goes_on(found) == Cardinality(found) < TargetCount

\* scan_until_target is called
StartScan ==
    /\ scan_pc = "rest"
    /\ scan_pc' = IF scan_goes_on(found_wallets) THEN "signatures" ELSE "returned"
    /\ UNCHANGED <<api, found_wallets, batch, trail_pc, page, all_transactions,
                   kol_pc, kol_attempt, kol_result>>
    /\ UNCHANGED <<fetchVars, signalVars, laterVars>>
    /\ UNCHANGED <<leadVars, overlapVars, scoreVars, extractVars, runVars>>

\* signatures = self.get_recent_signatures(), which returns [] for every error;
\* "if not signatures: ... time.sleep(2); continue"
GetRecentSignatures(sigs) ==
    /\ scan_pc = "signatures"
    /\ api = "failing" => sigs = <<>>
    /\ batch' = sigs
    /\ scan_pc' = IF sigs = <<>> THEN "sleeping" ELSE "checking"
    /\ UNCHANGED <<api, found_wallets, trail_pc, page, all_transactions,
                   kol_pc, kol_attempt, kol_result>>
    /\ UNCHANGED <<fetchVars, signalVars, laterVars>>
    /\ UNCHANGED <<leadVars, overlapVars, scoreVars, extractVars, runVars>>

\* one round of "for sig in signatures:": get_wallet_from_transaction(sig), which
\* returns None for every error, and the wallet it finds added to found_wallets
CheckSignature ==
    /\ scan_pc = "checking"
    /\ batch # <<>>
    /\ scan_goes_on(found_wallets)
    /\ \E wallet \in {IF api = "failing" THEN "None" ELSE Head(batch)} :
           found_wallets' = IF wallet # "None" THEN found_wallets \cup {wallet}
                            ELSE found_wallets
    /\ batch' = Tail(batch)
    /\ UNCHANGED <<api, scan_pc, trail_pc, page, all_transactions,
                   kol_pc, kol_attempt, kol_result>>
    /\ UNCHANGED <<fetchVars, signalVars, laterVars>>
    /\ UNCHANGED <<leadVars, overlapVars, scoreVars, extractVars, runVars>>

\* the for loop is over or left by "break": "time.sleep(1)" and the next round
\* of the while loop, or the end of it and the return
EndBatch ==
    /\ scan_pc = "checking"
    /\ batch = <<>> \/ ~scan_goes_on(found_wallets)
    /\ batch' = <<>>
    /\ scan_pc' = IF scan_goes_on(found_wallets) THEN "sleeping" ELSE "returned"
    /\ UNCHANGED <<api, found_wallets, trail_pc, page, all_transactions,
                   kol_pc, kol_attempt, kol_result>>
    /\ UNCHANGED <<fetchVars, signalVars, laterVars>>
    /\ UNCHANGED <<leadVars, overlapVars, scoreVars, extractVars, runVars>>

\* the sleep is over: the while loop tests its condition again
WakeScan ==
    /\ scan_pc = "sleeping"
    /\ scan_pc' = IF scan_goes_on(found_wallets) THEN "signatures" ELSE "returned"
    /\ UNCHANGED <<api, found_wallets, batch, trail_pc, page, all_transactions,
                   kol_pc, kol_attempt, kol_result>>
    /\ UNCHANGED <<fetchVars, signalVars, laterVars>>
    /\ UNCHANGED <<leadVars, overlapVars, scoreVars, extractVars, runVars>>

ScanStep ==
    \/ \E sigs \in SignatureBatches : GetRecentSignatures(sigs)
    \/ CheckSignature
    \/ EndBatch
    \/ WakeScan

\* the funding-trail tracker's get_wallet_transactions is called
StartTrail ==
    /\ trail_pc = "rest"
    /\ trail_pc' = "request"
    /\ page' = 1
    /\ all_transactions' = 0
    /\ UNCHANGED <<api, scan_pc, found_wallets, batch, kol_pc, kol_attempt, kol_result>>
    /\ UNCHANGED <<fetchVars, signalVars, laterVars>>
    /\ UNCHANGED <<leadVars, overlapVars, scoreVars, extractVars, runVars>>

\* one round of "while True:": requests.get and what follows.  429 and a
\* request error sleep and "continue"; an empty list and a page that is not
\* full "break"; a transaction before the cutoff returns; a full page goes on
TrailRequest(answer) ==
    /\ trail_pc = "request"
    /\ api = "failing" => answer \in FailingAnswers
    /\ answer = "full page" => page < MaxPages
    /\ trail_pc' = CASE answer \in {"429", "request error"} -> "sleeping"
                     [] answer \in {"empty", "last page", "cutoff"} -> "returned"
                     [] answer = "full page" -> "request"
    /\ page' = IF answer = "full page" THEN page + 1 ELSE page
    /\ all_transactions' = IF answer \in {"full page", "last page", "cutoff"}
                           THEN all_transactions + 1 ELSE all_transactions
    /\ UNCHANGED <<api, scan_pc, found_wallets, batch, kol_pc, kol_attempt, kol_result>>
    /\ UNCHANGED <<fetchVars, signalVars, laterVars>>
    /\ UNCHANGED <<leadVars, overlapVars, scoreVars, extractVars, runVars>>

\* "time.sleep(2); continue" is over
WakeTrail ==
    /\ trail_pc = "sleeping"
    /\ trail_pc' = "request"
    /\ UNCHANGED <<api, scan_pc, found_wallets, batch, page, all_transactions,
                   kol_pc, kol_attempt, kol_result>>
    /\ UNCHANGED <<fetchVars, signalVars, laterVars>>
    /\ UNCHANGED <<leadVars, overlapVars, scoreVars, extractVars, runVars>>

TrailStep ==
    \/ \E answer \in TrailAnswers : TrailRequest(answer)
    \/ WakeTrail

\* the KOL tracker's get_wallet_transactions is called
StartKol ==
    /\ kol_pc = "rest"
    /\ kol_pc' = "request"
    /\ kol_attempt' = 0
    /\ kol_result' = "None"
    /\ UNCHANGED <<api, scan_pc, found_wallets, batch, trail_pc, page, all_transactions>>
    /\ UNCHANGED <<fetchVars, signalVars, laterVars>>
    /\ UNCHANGED <<leadVars, overlapVars, scoreVars, extractVars, runVars>>

\* one round of "for attempt in range(max_retries):".  429 sleeps and goes to
\* the next round (after the last one the function ends without a return
\* statement); a timeout and a request error return [] in the last round; a
\* list, empty or not, is returned
KolRequest(answer) ==
    /\ kol_pc = "request"
    /\ api = "failing" => answer \in FailingAnswers
    /\ \E last \in {kol_attempt = max_retries - 1} :
         \/ /\ answer = "429" \/ (answer \in {"timeout", "request error"} /\ ~last)
            /\ kol_attempt' = kol_attempt + 1
            /\ kol_pc' = IF last THEN "returned" ELSE "request"
            /\ kol_result' = "None"
         \/ /\ answer \in {"timeout", "request error"} /\ last
            /\ kol_pc' = "returned"
            /\ kol_result' = "[]"
            /\ UNCHANGED kol_attempt
         \/ /\ answer \in {"empty", "transactions"}
            /\ kol_pc' = "returned"
            /\ kol_result' = IF answer = "empty" THEN "[]" ELSE "recent_txs"
            /\ UNCHANGED kol_attempt
    /\ UNCHANGED <<api, scan_pc, found_wallets, batch, trail_pc, page, all_transactions>>
    /\ UNCHANGED <<fetchVars, signalVars, laterVars>>
    /\ UNCHANGED <<leadVars, overlapVars, scoreVars, extractVars, runVars>>

KolStep == \E answer \in KolAnswers : KolRequest(answer)

NextRetry ==
    \/ ApiGoesDown
    \/ StartScan
    \/ StartTrail
    \/ StartKol
    \/ ScanStep
    \/ TrailStep
    \/ KolStep

\* each routine is a running program: while it can take a step, it takes one
SpecRetry ==
    /\ InitRetry
    /\ [][NextRetry]_vars
    /\ WF_vars(ScanStep) /\ WF_vars(TrailStep) /\ WF_vars(KolStep)

\* C16: under an API that fails persistently (every request is answered with
\* HTTP 429, a request error or an empty result), each fetch routine that is
\* running gives up after a bounded number of attempts and returns.
C16_AsStated ==
    /\ (api = "failing" /\ scan_pc # "rest") ~> (scan_pc = "returned")
    /\ (api = "failing" /\ trail_pc # "rest") ~> (trail_pc = "returned")
    /\ (api = "failing" /\ kol_pc # "rest") ~> (kol_pc = "returned")

(***************************************************************************)
(* SpecInterrupt: a collecting run of one of the trackers and the signals  *)
(* its process may be sent: KOLTracker.get_all_kol_trades (kol_tracker.py),*)
(* KOLTracker.get_all_kol_trades_concurrent (faster_kol_tracker.py) and a  *)
(* report of PatternCoordinationAnalyzer (gakecoordinationtracker.py).     *)
(* A step is the work on one wallet (one batch of the concurrent run), the *)
(* entry into its try block, or the arrival of a signal.                   *)
(***************************************************************************)

\* len(wallets_list): the wallets (or batches) a run goes through
NumKolWallets == 11

\* "if (i + 1) % 10 == 0:" of get_all_kol_trades
save_interval == 10

Programs == {"kol_tracker", "faster_kol_tracker", "gakecoordinationtracker"}

Signals == {"SIGINT", "SIGTERM"}

\* the programs that install handle_signal for SIGINT and SIGTERM
handles_signals(p) == p = "gakecoordinationtracker"

\* the programs whose loop body is a try block with "except KeyboardInterrupt:"
catches_interrupt(p) == p = "kol_tracker"

\* self.save_progress(trades, wallet_index), written to kol_progress.json
save_progress(trades, index) == [kind |-> "progress", wallet_index |-> index, trades |-> trades]

InitInterrupt == LeadAtRest /\ OverlapAtRest /\ ScoreAtRest /\ ExtractAtRest /\ RunAtRest /\ IoAtRest /\ LaterAtRest

\* the run begins with all_trades = [] and is at the head of its loop
StartRun(p) ==
    /\ run_state = "rest"
    /\ program' = p
    /\ run_state' = "loop"
    /\ UNCHANGED <<wallet_index, all_trades, kol_progress, signals_received>>
    /\ UNCHANGED <<fetchVars, retryVars, laterVars>>
    /\ UNCHANGED <<leadVars, overlapVars, scoreVars, extractVars, runVars>>

\* get_all_kol_trades: from the head of the loop (the unpacking of the wallet
\* and the print, outside the try block) into the try block
EnterTry ==
    /\ run_state = "loop"
    /\ catches_interrupt(program)
    /\ wallet_index < NumKolWallets
    /\ run_state' = "try"
    /\ UNCHANGED <<program, wallet_index, all_trades, kol_progress, signals_received>>
    /\ UNCHANGED <<fetchVars, retryVars, laterVars>>
    /\ UNCHANGED <<leadVars, overlapVars, scoreVars, extractVars, runVars>>

\* the work on one wallet (one batch): its trades are added to all_trades;
\* get_all_kol_trades saves the progress after every tenth wallet
Collect(found) ==
    /\ run_state = IF catches_interrupt(program) THEN "try" ELSE "loop"
    /\ wallet_index < NumKolWallets
    /\ all_trades' = all_trades + found
    /\ wallet_index' = wallet_index + 1
    /\ kol_progress' =
           IF catches_interrupt(program) /\ (wallet_index + 1) % save_interval = 0
           THEN save_progress(all_trades + found, wallet_index + 1)
           ELSE kol_progress
    /\ run_state' = "loop"
    /\ UNCHANGED <<program, signals_received>>
    /\ UNCHANGED <<fetchVars, retryVars, laterVars>>
    /\ UNCHANGED <<leadVars, overlapVars, scoreVars, extractVars, runVars>>

\* the loop is over: "return all_trades"
CompleteRun ==
    /\ run_state = "loop"
    /\ wallet_index = NumKolWallets
    /\ run_state' = "completed"
    /\ UNCHANGED <<program, wallet_index, all_trades, kol_progress, signals_received>>
    /\ UNCHANGED <<fetchVars, retryVars, laterVars>>
    /\ UNCHANGED <<leadVars, overlapVars, scoreVars, extractVars, runVars>>

\* a signal arrives while the run is under way.  handle_signal logs it and the
\* run goes on.  Without a handler SIGTERM ends the process at once, and SIGINT
\* raises KeyboardInterrupt where the run is: inside the try block of
\* get_all_kol_trades it is caught, the progress is saved and it is raised
\* again; anywhere else nothing catches it
Interrupt(sig) ==
    /\ run_state \in {"loop", "try"}
    /\ signals_received' = signals_received \cup {sig}
    /\ run_state' = CASE handles_signals(program) -> run_state
                      [] ~handles_signals(program) /\ sig = "SIGTERM" -> "terminated"
                      [] ~handles_signals(program) /\ sig = "SIGINT" -> "interrupted"
    /\ kol_progress' =
           IF ~handles_signals(program) /\ sig = "SIGINT" /\ run_state = "try"
           THEN save_progress(all_trades, wallet_index + 1)
           ELSE kol_progress
    /\ UNCHANGED <<program, wallet_index, all_trades>>
    /\ UNCHANGED <<fetchVars, retryVars, laterVars>>
    /\ UNCHANGED <<leadVars, overlapVars, scoreVars, extractVars, runVars>>

NextInterrupt ==
    \/ \E p \in Programs : StartRun(p)
    \/ EnterTry
    \/ \E found \in {0, 1} : Collect(found)
    \/ CompleteRun
    \/ \E sig \in Signals : Interrupt(sig)

SpecInterrupt == InitInterrupt /\ [][NextInterrupt]_vars

\* C19: a run that a signal (SIGINT / KeyboardInterrupt or SIGTERM) has ended
\* after it had collected results has written a checkpoint that holds the
\* results collected up to then.
C19_AsStated ==
    (run_state \in {"interrupted", "terminated"} /\ all_trades > 0) =>
        /\ kol_progress.kind = "progress"
        /\ kol_progress.trades = all_trades

(***************************************************************************)
(* SpecBatch: get_token_purchases as a function of the list of             *)
(* transactions its fetch returned.  The list is put together from well-   *)
(* formed transactions (a purchase, no change, a failed one) and malformed *)
(* ones (balance fields missing or ill-typed); then the extractor is       *)
(* called on it, and called again on the same list.                        *)
(***************************************************************************)

\* the longest list of transactions
MaxBatch == 3

\* the values of max_tokens; the fetch is limited to max_tokens * 2 transactions
BatchCaps == {1, 2, 3}

\* a uiAmount that float() cannot convert
BadAmount == 0 - 2

\* an entry of preTokenBalances or postTokenBalances
balance_entry(index, mint, amount) ==
    [accountIndex |-> index, mint |-> mint, owner |-> SubjectWallet, uiAmount |-> amount]

\* a transaction in which the wallet's balance of one mint went from 1 to 2
bought(signature, mint, block_time) ==
    [signature |-> signature, timestamp |-> block_time, err |-> FALSE, malformed |-> FALSE,
     pre |-> <<balance_entry(1, mint, 1)>>, post |-> <<balance_entry(1, mint, 2)>>]

WellFormed ==
    { bought("s1", "A", 300), bought("s2", "B", 200), bought("s3", "C", 100),
      bought("s4", "A", 100),
      \* no balance changed
      [signature |-> "s5", timestamp |-> 200, err |-> FALSE, malformed |-> FALSE,
       pre |-> <<balance_entry(1, "B", 2)>>, post |-> <<balance_entry(1, "B", 2)>>],
      \* meta.err is set
      [signature |-> "s6", timestamp |-> 200, err |-> TRUE, malformed |-> FALSE,
       pre |-> <<balance_entry(1, "B", 2)>>, post |-> <<balance_entry(1, "B", 2)>>] }

Malformed ==
    { \* no meta, or a meta without the two balance lists
      [signature |-> "m1", timestamp |-> 200, err |-> FALSE, malformed |-> TRUE,
       pre |-> <<>>, post |-> <<>>],
      \* the first post-balance has an ill-typed amount, the second is a purchase
      [signature |-> "m2", timestamp |-> 200, err |-> FALSE, malformed |-> TRUE,
       pre |-> <<balance_entry(1, "A", 1), balance_entry(2, "C", 1)>>,
       post |-> <<balance_entry(1, "A", BadAmount), balance_entry(2, "C", 2)>>],
      \* the pre-balance has no uiAmount
      [signature |-> "m3", timestamp |-> 200, err |-> FALSE, malformed |-> TRUE,
       pre |-> <<balance_entry(1, "C", NoAmount)>>, post |-> <<balance_entry(1, "C", 2)>>],
      \* the first post-balance is a purchase, the second has an ill-typed amount
      [signature |-> "m4", timestamp |-> 200, err |-> FALSE, malformed |-> TRUE,
       pre |-> <<balance_entry(1, "B", 1), balance_entry(2, "A", 1)>>,
       post |-> <<balance_entry(1, "B", 2), balance_entry(2, "A", BadAmount)>>] }

\* float(post_ui_amount) raises in the pass over this entry
raises_at(post_balance, seen) ==
    ~skip_entry(post_balance, seen) /\ post_balance.uiAmount = BadAmount

\* the loop over post_balances from entry k on: the entry at which it comes to
\* purchases.append, or 0 when it ends or raises before that
RECURSIVE purchase_entry(_, _, _)
purchase_entry(tx, seen, k) ==
    IF k > Len(tx.post) THEN 0
    ELSE IF raises_at(tx.post[k], seen) THEN 0
    ELSE IF found_purchase(tx.post[k], tx.pre, seen) THEN k
    ELSE purchase_entry(tx, seen, k + 1)

\* "purchases = []" and "seen_tokens = set()" at the head of the call, whatever
\* an earlier call left
\* (a variant in which seen_tokens outlives the call)
initial_locals_kept(left) == [purchases |-> <<>>, seen_tokens |-> left]

initial_locals(left) == [purchases |-> <<>>, seen_tokens |-> {}]

\* the loop over transactions from the k-th on
RECURSIVE extract_loop(_, _, _, _)
extract_loop(txs, k, cap, locals) ==
    IF k > Len(txs) \/ Len(locals.purchases) >= cap THEN locals
    ELSE LET tx == txs[k]
             at == IF tx.err THEN 0 ELSE purchase_entry(tx, locals.seen_tokens, 1)
         IN  extract_loop(txs, k + 1, cap,
                 IF at = 0 THEN locals
                 ELSE [purchases |-> Append(locals.purchases,
                                            purchase_from(tx.post[at], tx.pre,
                                                          tx.timestamp, tx.signature)),
                       seen_tokens |-> locals.seen_tokens \cup {tx.post[at].mint}])

\* the locals at the end of get_token_purchases on a list, and what it returns
extracted_locals(txs, cap, left) == extract_loop(txs, 1, cap, initial_locals(left))

returned_purchases(locals, cap) == truncated(locals.purchases, cap)

InitBatch == LeadAtRest /\ OverlapAtRest /\ ScoreAtRest /\ ExtractAtRest /\ RunAtRest /\ IoAtRest /\ LaterAtRest

\* the fetch returns one more transaction
FetchedTransaction(tx) ==
    /\ batch_pc = "rest"
    /\ Len(batch_txs) < MaxBatch
    /\ batch_txs' = Append(batch_txs, tx)
    /\ UNCHANGED <<batch_cap, batch_pc, extracted, extracted_again, seen_left>>
    /\ UNCHANGED notBatchVars
    /\ UNCHANGED <<leadVars, overlapVars, scoreVars, extractVars, runVars, ioVars>>

\* get_token_purchases(wallet, cap) on the list
ExtractBatch(cap) ==
    /\ batch_pc = "rest"
    /\ Len(batch_txs) <= cap * 2
    /\ batch_cap' = cap
    /\ batch_pc' = "called"
    /\ \E locals \in {extracted_locals(batch_txs, cap, {})} :
           /\ extracted' = returned_purchases(locals, cap)
           /\ seen_left' = locals.seen_tokens
    /\ UNCHANGED <<batch_txs, extracted_again>>
    /\ UNCHANGED notBatchVars
    /\ UNCHANGED <<leadVars, overlapVars, scoreVars, extractVars, runVars, ioVars>>

\* the same call once more
ExtractBatchAgain ==
    /\ batch_pc = "called"
    /\ batch_pc' = "called again"
    /\ \E locals \in {extracted_locals(batch_txs, batch_cap, seen_left)} :
           /\ extracted_again' = returned_purchases(locals, batch_cap)
           /\ seen_left' = locals.seen_tokens
    /\ UNCHANGED <<batch_txs, batch_cap, extracted>>
    /\ UNCHANGED notBatchVars
    /\ UNCHANGED <<leadVars, overlapVars, scoreVars, extractVars, runVars, ioVars>>

NextBatch ==
    \/ \E tx \in WellFormed \cup Malformed : FetchedTransaction(tx)
    \/ \E cap \in BatchCaps : ExtractBatch(cap)
    \/ ExtractBatchAgain

SpecBatch == InitBatch /\ [][NextBatch]_vars

\* the list without its k-th transaction
Without(txs, k) == SubSeq(txs, 1, k - 1) \o SubSeq(txs, k + 1, Len(txs))

\* what the extractor returns for a list
ExtractedFrom(txs, cap) == returned_purchases(extracted_locals(txs, cap, {}), cap)

\* C21, as the spec states it: a malformed transaction (balance fields missing
\* or ill-typed) anywhere in the list gives no PurchaseEvent, and the list
\* returned is the one returned for the list without that transaction.
C21_AsStated ==
    batch_pc # "rest" =>
        \A k \in DOMAIN batch_txs :
            batch_txs[k].malformed =>
                /\ \A i \in DOMAIN extracted :
                       extracted[i].signature # batch_txs[k].signature
                /\ extracted = ExtractedFrom(Without(batch_txs, k), batch_cap)

\* C22: a second call of the extractor on the same list of transactions, with
\* the same wallet and cap, returns the same events in the same order as the first.
C22_SameListAgain ==
    batch_pc = "called again" => extracted_again = extracted

\* both calls were made on a list with two purchases of the same mint and a
\* purchase of another, and returned two events
C22_Witness ==
    /\ batch_pc = "called again"
    /\ batch_txs = <<bought("s1", "A", 300), bought("s4", "A", 100), bought("s2", "B", 200)>>
    /\ Len(extracted_again) = 2
    /\ seen_left = {"A", "B"}

\* the timestamps along a list of events never rise, or never fall
Monotone(events) ==
    \/ \A i, j \in DOMAIN events : i < j => events[i].timestamp >= events[j].timestamp
    \/ \A i, j \in DOMAIN events : i < j => events[i].timestamp <= events[j].timestamp

\* C23, as the spec states it: the list the extractor returns is time-ordered,
\* whatever the order of the fetched transactions.
C23_AsStated ==
    batch_pc # "rest" => Monotone(extracted)

(***************************************************************************)
(* SpecPool: get_all_kol_trades_concurrent.  The wallets are cut into      *)
(* batches of max_workers wallets, every batch is submitted to a           *)
(* ThreadPoolExecutor(max_workers), and each thread of the pool runs       *)
(* process_wallet_batch on the batch it has taken: wallet after wallet, one*)
(* request, then the parsing and time.sleep(0.1).  The threads run in any  *)
(* interleaving.                                                           *)
(***************************************************************************)

\* len(wallets_list)
NumPoolWallets == 5

\* the sizes of the batches wallets_list[i:i+batch_size], batch_size = max_workers
RECURSIVE batch_sizes(_, _)
batch_sizes(wallets, batch_size) ==
    IF wallets = 0 THEN <<>>
    ELSE IF wallets <= batch_size THEN <<wallets>>
    ELSE <<batch_size>> \o batch_sizes(wallets - batch_size, batch_size)

\* the threads ThreadPoolExecutor(max_workers=max_workers) runs tasks on
\* (a variant with one thread more)
pool_threads_one_more(max_workers) == 1 .. (max_workers + 1)

pool_threads(max_workers) == 1 .. max_workers

\* the requests under way: the threads inside requests.get
in_flight == {w \in PoolThreadIds : worker[w].phase = "request"}

InitPool == LeadAtRest /\ OverlapAtRest /\ ScoreAtRest /\ ExtractAtRest /\ RunAtRest /\ IoAtRest /\ LaterAtRest

\* the call: the batches are built and submitted
CallConcurrent(max_workers) ==
    /\ pool_pc = "rest"
    /\ pool_pc' = "running"
    /\ pool_size' = max_workers
    /\ pool_queue' = batch_sizes(NumPoolWallets, max_workers)
    /\ UNCHANGED <<worker, pool_trades>>
    /\ UNCHANGED notPoolVars
    /\ UNCHANGED <<leadVars, overlapVars, scoreVars, extractVars, runVars, ioVars>>

\* a thread of the pool that has no task takes the next batch and sends the
\* request for its first wallet
TakeBatch(w) ==
    /\ pool_pc = "running"
    /\ w \in pool_threads(pool_size)
    /\ worker[w].phase = "idle"
    /\ pool_queue # <<>>
    /\ worker' = [worker EXCEPT ![w] = [phase |-> "request", left |-> Head(pool_queue),
                                        batch_trades |-> 0]]
    /\ pool_queue' = Tail(pool_queue)
    /\ UNCHANGED <<pool_pc, pool_size, pool_trades>>
    /\ UNCHANGED notPoolVars
    /\ UNCHANGED <<leadVars, overlapVars, scoreVars, extractVars, runVars, ioVars>>

\* the request of a thread is answered (or has failed for good): the trades
\* are added to batch_trades and the thread sleeps
Answered(w, found) ==
    /\ worker[w].phase = "request"
    /\ worker' = [worker EXCEPT ![w].phase = "sleep", ![w].batch_trades = @ + found]
    /\ UNCHANGED <<pool_pc, pool_size, pool_queue, pool_trades>>
    /\ UNCHANGED notPoolVars
    /\ UNCHANGED <<leadVars, overlapVars, scoreVars, extractVars, runVars, ioVars>>

\* the sleep is over: the request for the next wallet of the batch, or the
\* return of batch_trades, which the caller adds to all_trades
NextWallet(w) ==
    /\ worker[w].phase = "sleep"
    /\ IF worker[w].left > 1
       THEN /\ worker' = [worker EXCEPT ![w].phase = "request", ![w].left = @ - 1]
            /\ UNCHANGED pool_trades
       ELSE /\ worker' = [worker EXCEPT ![w] = IdleThread]
            /\ pool_trades' = pool_trades + worker[w].batch_trades
    /\ UNCHANGED <<pool_pc, pool_size, pool_queue>>
    /\ UNCHANGED notPoolVars
    /\ UNCHANGED <<leadVars, overlapVars, scoreVars, extractVars, runVars, ioVars>>

\* every future has its result: "return all_trades"
ReturnConcurrent ==
    /\ pool_pc = "running"
    /\ pool_queue = <<>>
    /\ \A w \in PoolThreadIds : worker[w].phase = "idle"
    /\ pool_pc' = "returned"
    /\ UNCHANGED <<pool_size, pool_queue, worker, pool_trades>>
    /\ UNCHANGED notPoolVars
    /\ UNCHANGED <<leadVars, overlapVars, scoreVars, extractVars, runVars, ioVars>>

NextPool ==
    \/ \E max_workers \in 1..MaxWorkers : CallConcurrent(max_workers)
    \/ \E w \in PoolThreadIds : TakeBatch(w)
    \/ \E w \in PoolThreadIds, found \in {0, 1} : Answered(w, found)
    \/ \E w \in PoolThreadIds : NextWallet(w)
    \/ ReturnConcurrent

SpecPool == InitPool /\ [][NextPool]_vars

\* C24: in every interleaving of the threads of get_all_kol_trades_concurrent
\* at most max_workers API requests are under way at any moment.
C24_AtMostMaxWorkers ==
    Cardinality(in_flight) <= pool_size

\* max_workers = 2 requests are under way while a batch is still waiting
C24_Witness ==
    /\ pool_pc = "running"
    /\ pool_size = MaxWorkers
    /\ Cardinality(in_flight) = pool_size
    /\ pool_queue # <<>>

(***************************************************************************)
(* SpecResume: run_analysis of a KOL tracker run after run, with the       *)
(* progress file between the runs: kol_tracker.py, and faster_kol_tracker  *)
(* .py with use_concurrent=False.  The API has the same trades for a       *)
(* wallet in every run.  A run is interrupted by KeyboardInterrupt inside  *)
(* the try block of get_all_kol_trades, before or after the trades of the  *)
(* wallet at hand were added; the next run finds the file.                 *)
(***************************************************************************)

\* the most interrupts of one history
MaxInterrupts == 2

ResumePrograms == {"kol_tracker", "faster_kol_tracker"}

\* "if existing_trades:" and "if not all_trades:"
has_trades(trades) == \E w \in DOMAIN trades : trades[w] > 0

\* existing_trades + new_trades
joined(first, second) == [w \in DOMAIN first |-> first[w] + second[w]]

\* the run removes kol_progress.json after aggregate_trades: kol_tracker.py
\* always, faster_kol_tracker.py "if use_concurrent:" only
removes_progress(p) == p = "kol_tracker"

\* the checkpoint the handler of KeyboardInterrupt writes while wallet i (from
\* 0) is at hand: self.save_progress(all_trades, i + 1)
interrupt_checkpoint(trades, i) == save_progress(trades, i + 1)

InitResume == LeadAtRest /\ OverlapAtRest /\ ScoreAtRest /\ ExtractAtRest /\ RunAtRest /\ IoAtRest /\ LaterAtRest

\* run_analysis(resume=True) up to the loop of get_all_kol_trades: the file is
\* loaded and, when it holds trades, the user is asked whether to resume
RunAnalysis(p, per_wallet, answer) ==
    LET offered == progress_file.kind = "progress" /\ has_trades(progress_file.trades)
        resumed == offered /\ answer = "y"
    IN  /\ res_pc \in {"rest", "interrupted"}
        /\ res_pc = "interrupted" => (p = res_program /\ per_wallet = trades_per_wallet)
        /\ ~offered => answer = "y"
        /\ res_program' = p
        /\ trades_per_wallet' = per_wallet
        /\ res_start' = IF resumed THEN progress_file.wallet_index ELSE 0
        /\ res_i' = IF resumed THEN progress_file.wallet_index ELSE 0
        /\ existing_trades' = IF resumed THEN progress_file.trades ELSE NoTrades
        /\ res_all_trades' = NoTrades
        /\ declined' = (declined \/ (offered /\ answer = "n"))
        /\ res_pc' = "loop"
        /\ UNCHANGED <<progress_file, final_trades, interrupts>>
        /\ UNCHANGED notResumeVars
        /\ UNCHANGED <<leadVars, overlapVars, scoreVars, extractVars, runVars, ioVars>>

\* the loop comes to the next wallet and enters its try block
NextKolWallet ==
    /\ res_pc = "loop"
    /\ res_i < NumResumeWallets
    /\ res_pc' = "try"
    /\ UNCHANGED <<res_program, res_start, res_i, res_all_trades, existing_trades,
                   progress_file, final_trades, trades_per_wallet, interrupts, declined>>
    /\ UNCHANGED notResumeVars
    /\ UNCHANGED <<leadVars, overlapVars, scoreVars, extractVars, runVars, ioVars>>

\* the transactions of the wallet are fetched and its trades appended
AppendTrades ==
    /\ res_pc = "try"
    /\ res_pc' = "appended"
    /\ res_all_trades' = [res_all_trades EXCEPT ![res_i + 1] = @ + trades_per_wallet]
    /\ UNCHANGED <<res_program, res_start, res_i, existing_trades,
                   progress_file, final_trades, trades_per_wallet, interrupts, declined>>
    /\ UNCHANGED notResumeVars
    /\ UNCHANGED <<leadVars, overlapVars, scoreVars, extractVars, runVars, ioVars>>

\* the rest of the try block: the progress is saved after every tenth wallet
FinishWallet ==
    /\ res_pc = "appended"
    /\ res_pc' = "loop"
    /\ res_i' = res_i + 1
    /\ progress_file' = IF (res_i + 1) % save_interval = 0
                        THEN save_progress(res_all_trades, res_i + 1)
                        ELSE progress_file
    /\ UNCHANGED <<res_program, res_start, res_all_trades, existing_trades,
                   final_trades, trades_per_wallet, interrupts, declined>>
    /\ UNCHANGED notResumeVars
    /\ UNCHANGED <<leadVars, overlapVars, scoreVars, extractVars, runVars, ioVars>>

\* KeyboardInterrupt inside the try block: the progress is saved and the
\* exception raised again, which ends the run
InterruptRun ==
    /\ res_pc \in {"try", "appended"}
    /\ interrupts < MaxInterrupts
    /\ interrupts' = interrupts + 1
    /\ progress_file' = interrupt_checkpoint(res_all_trades, res_i)
    /\ res_pc' = "interrupted"
    /\ UNCHANGED <<res_program, res_start, res_i, res_all_trades, existing_trades,
                   final_trades, trades_per_wallet, declined>>
    /\ UNCHANGED notResumeVars
    /\ UNCHANGED <<leadVars, overlapVars, scoreVars, extractVars, runVars, ioVars>>

\* the loop is over: run_analysis joins the trades; without a trade it returns
\* at once, otherwise it aggregates and cleans up
CompleteAnalysis ==
    /\ res_pc = "loop"
    /\ res_i = NumResumeWallets
    /\ res_pc' = "completed"
    /\ final_trades' = joined(existing_trades, res_all_trades)
    /\ progress_file' =
           IF has_trades(joined(existing_trades, res_all_trades)) /\ removes_progress(res_program)
           THEN NoProgress
           ELSE progress_file
    /\ UNCHANGED <<res_program, res_start, res_i, res_all_trades, existing_trades,
                   trades_per_wallet, interrupts, declined>>
    /\ UNCHANGED notResumeVars
    /\ UNCHANGED <<leadVars, overlapVars, scoreVars, extractVars, runVars, ioVars>>

NextResume ==
    \/ \E p \in ResumePrograms, per_wallet \in {0, 1}, answer \in {"y", "n"} :
           RunAnalysis(p, per_wallet, answer)
    \/ NextKolWallet
    \/ AppendTrades
    \/ FinishWallet
    \/ InterruptRun
    \/ CompleteAnalysis

SpecResume == InitResume /\ [][NextResume]_vars

\* C25, as stated: after any interrupts inside the processing of a wallet, each
\* followed by a run that resumes from the saved checkpoint, the trades finally
\* aggregated are those of an uninterrupted run: the trades of every wallet once.
C25_AsStated ==
    (res_pc = "completed" /\ ~declined) =>
        final_trades = [w \in 1..NumResumeWallets |-> trades_per_wallet]

\* C29, as stated: when run_analysis has completed, kol_progress.json does not exist.
C29_AsStated ==
    res_pc = "completed" => progress_file.kind = "None"

(***************************************************************************)
(* SpecPump: gake_frontrun_webhook_tracker.py.  The monitor thread and the *)
(* handlers of /webhook and /check/<token> call detector.check_pump for    *)
(* one monitored token; the three run in threads of one process and share  *)
(* last_alert and price_history without a lock.  The token is no           *)
(* stablecoin and DexScreener reports a 24 h volume of 0, so that a pump   *)
(* is detected by the price alone.                                         *)
(***************************************************************************)

PRICE_PUMP_THRESHOLD == 15
TIME_WINDOW == 300
ALERT_COOLDOWN == 600

\* the clock moves in steps of TickSeconds up to StartClock + MaxElapsed
TickSeconds == 200
MaxElapsed == 600
\* the most entries of price_history and the most PUMP_DETECTED results
MaxHistory == 3
MaxResults == 2

\* the prices DexScreener answers; NoAmount: the request failed (price None)
PumpPrices == {NoAmount, 100, 120}

\* history[:] = [(t, p) for t, p in history if current_time - t < TIME_WINDOW]
\* history.append((current_time, current_price))
recent_history(history, current_time, current_price) ==
    Append(SelectSeq(history, LAMBDA e : current_time - e[1] < TIME_WINDOW),
           <<current_time, current_price>>)

\* price_change >= PRICE_PUMP_THRESHOLD for the price change
\* ((latest - earliest) / earliest) * 100 of calculate_price_change
price_pumps(history) ==
    /\ Len(history) >= 2
    /\ history[1][2] > 0
    /\ (history[Len(history)][2] - history[1][2]) * 100 >= PRICE_PUMP_THRESHOLD * history[1][2]

\* "if current_time - last_alert[token_address] < ALERT_COOLDOWN: return None"
in_cooldown(current_time, last) == current_time - last < ALERT_COOLDOWN

InitPump == LeadAtRest /\ OverlapAtRest /\ ScoreAtRest /\ ExtractAtRest /\ RunAtRest /\ IoAtRest /\ LaterAtRest

\* time passes
PumpTick ==
    /\ clock < StartClock + MaxElapsed
    /\ clock' = clock + TickSeconds
    /\ UNCHANGED <<last_alert, price_history, pump_pc, pump_time, pump_price, pump_returned, pump_results>>
    /\ UNCHANGED notPumpVars
    /\ UNCHANGED <<leadVars, overlapVars, scoreVars, extractVars, runVars, ioVars>>

\* a thread calls check_pump: it reads the time and tests the cooldown
CallCheckPump(th) ==
    /\ pump_pc[th] = "idle"
    /\ Len(pump_results) < MaxResults
    /\ Len(price_history) < MaxHistory
    /\ IF in_cooldown(clock, last_alert)
       THEN /\ pump_returned' = "None"
            /\ UNCHANGED <<pump_pc, pump_time>>
       ELSE /\ pump_pc' = [pump_pc EXCEPT ![th] = "get_token_data"]
            /\ pump_time' = [pump_time EXCEPT ![th] = clock]
            /\ UNCHANGED pump_returned
    /\ UNCHANGED <<clock, last_alert, price_history, pump_price, pump_results>>
    /\ UNCHANGED notPumpVars
    /\ UNCHANGED <<leadVars, overlapVars, scoreVars, extractVars, runVars, ioVars>>

\* is_stablecoin and get_token_data have answered
GetTokenData(th, price) ==
    /\ pump_pc[th] = "get_token_data"
    /\ IF price = NoAmount
       THEN /\ pump_pc' = [pump_pc EXCEPT ![th] = "idle"]
            /\ pump_time' = [pump_time EXCEPT ![th] = 0]
            /\ pump_returned' = "None"
            /\ UNCHANGED pump_price
       ELSE /\ pump_pc' = [pump_pc EXCEPT ![th] = "metrics"]
            /\ pump_price' = [pump_price EXCEPT ![th] = price]
            /\ UNCHANGED <<pump_returned, pump_time>>
    /\ UNCHANGED <<clock, last_alert, price_history, pump_results>>
    /\ UNCHANGED notPumpVars
    /\ UNCHANGED <<leadVars, overlapVars, scoreVars, extractVars, runVars, ioVars>>

\* the metrics are calculated, and a pump sets last_alert to the time the call
\* read at its start and returns PUMP_DETECTED; the locals of the call are gone
DetectPump(th) ==
    /\ pump_pc[th] = "metrics"
    /\ price_history' = recent_history(price_history, clock, pump_price[th])
    /\ pump_pc' = [pump_pc EXCEPT ![th] = "idle"]
    /\ pump_time' = [pump_time EXCEPT ![th] = 0]
    /\ pump_price' = [pump_price EXCEPT ![th] = NoAmount]
    /\ IF price_pumps(price_history')
       THEN /\ last_alert' = pump_time[th]
            /\ pump_returned' = "PUMP_DETECTED"
            /\ pump_results' = Append(pump_results, pump_time[th])
       ELSE /\ pump_returned' = "None"
            /\ UNCHANGED <<last_alert, pump_results>>
    /\ UNCHANGED clock
    /\ UNCHANGED notPumpVars
    /\ UNCHANGED <<leadVars, overlapVars, scoreVars, extractVars, runVars, ioVars>>

NextPump ==
    \/ PumpTick
    \/ \E th \in PumpThreads : CallCheckPump(th)
    \/ \E th \in PumpThreads, price \in PumpPrices : GetTokenData(th, price)
    \/ \E th \in PumpThreads : DetectPump(th)

SpecPump == InitPump /\ [][NextPump]_vars

\* C26, as stated: two PUMP_DETECTED results for the token are never less than
\* ALERT_COOLDOWN apart, measured by the time each call of check_pump read at
\* its start, in every interleaving of the monitor thread and the handlers.
C26_AsStated ==
    \A i, j \in 1..Len(pump_results) :
        i < j => pump_results[j] - pump_results[i] >= ALERT_COOLDOWN

(***************************************************************************)
(* SpecBot: telegram_gem_bot.py.  The command handlers run one after the   *)
(* other in the event loop; a job of the job queue (monitor_callback) is a *)
(* coroutine of its own in the same loop.  A coroutine runs until its next *)
(* await: scan_tokens has none, the loop over the gems has one,            *)
(* "await bot.send_gem_alert(update, gem)".                                *)
(***************************************************************************)

\* the most scans of one history
MaxScans == 3

\* the gems a scan can find: get_latest_tokens yields every address once
GemLists ==
    {<<>>} \cup {<<t>> : t \in BotTokens}
           \cup {<<t, u>> : <<t, u>> \in {p \in BotTokens \X BotTokens : p[1] # p[2]}}

\* the loop over the gems up to its next await: the gems whose address is in
\* bot.alerted_tokens are passed over
RECURSIVE up_to_send(_, _)
up_to_send(gems, alerted) ==
    IF gems = <<>> THEN <<>>
    ELSE IF Head(gems) \notin alerted THEN gems
    ELSE up_to_send(Tail(gems), alerted)

waits(gems) == IF gems = <<>> THEN "idle" ELSE "sending"

InitBot == LeadAtRest /\ OverlapAtRest /\ ScoreAtRest /\ ExtractAtRest /\ RunAtRest /\ IoAtRest /\ LaterAtRest

\* /scan or /deepscan: the handler scans and awaits its reply "Found n gems"
\* (without gems the reply is its last await)
scan(gems) ==
    /\ bot_pc["handler"] = "idle"
    /\ scans < MaxScans
    /\ scans' = scans + 1
    /\ bot_gems' = [bot_gems EXCEPT !["handler"] = gems]
    /\ bot_pc' = [bot_pc EXCEPT !["handler"] = IF gems = <<>> THEN "idle" ELSE "found"]
    /\ UNCHANGED <<alerted_tokens, alert_count>>
    /\ UNCHANGED notBotVars
    /\ UNCHANGED <<leadVars, overlapVars, scoreVars, extractVars, runVars, ioVars>>

\* the reply is sent: the handler enters the loop over its gems
FoundReplied ==
    /\ bot_pc["handler"] = "found"
    /\ \E rest \in {up_to_send(bot_gems["handler"], alerted_tokens)} :
           /\ bot_gems' = [bot_gems EXCEPT !["handler"] = rest]
           /\ bot_pc' = [bot_pc EXCEPT !["handler"] = waits(rest)]
    /\ UNCHANGED <<alerted_tokens, alert_count, scans>>
    /\ UNCHANGED notBotVars
    /\ UNCHANGED <<leadVars, overlapVars, scoreVars, extractVars, runVars, ioVars>>

\* the job queue runs monitor_callback: the scan and the loop up to its first await
monitor_callback(gems) ==
    /\ bot_pc["job"] = "idle"
    /\ scans < MaxScans
    /\ scans' = scans + 1
    /\ \E rest \in {up_to_send(gems, alerted_tokens)} :
           /\ bot_gems' = [bot_gems EXCEPT !["job"] = rest]
           /\ bot_pc' = [bot_pc EXCEPT !["job"] = waits(rest)]
    /\ UNCHANGED <<alerted_tokens, alert_count>>
    /\ UNCHANGED notBotVars
    /\ UNCHANGED <<leadVars, overlapVars, scoreVars, extractVars, runVars, ioVars>>

\* the alert of the gem at hand is sent: save_alerted_token, and the loop goes
\* on to its next await
AlertSent(task) ==
    /\ bot_pc[task] = "sending"
    /\ alert_count' = [alert_count EXCEPT ![Head(bot_gems[task])] = @ + 1]
    /\ alerted_tokens' = alerted_tokens \cup {Head(bot_gems[task])}
    /\ \E rest \in {up_to_send(Tail(bot_gems[task]), alerted_tokens')} :
           /\ bot_gems' = [bot_gems EXCEPT ![task] = rest]
           /\ bot_pc' = [bot_pc EXCEPT ![task] = waits(rest)]
    /\ UNCHANGED scans
    /\ UNCHANGED notBotVars
    /\ UNCHANGED <<leadVars, overlapVars, scoreVars, extractVars, runVars, ioVars>>

\* /clear: the list is emptied and save_alerted_token('') called
clear_alerted ==
    /\ bot_pc["handler"] = "idle"
    /\ alerted_tokens' = {""}
    /\ alert_count' = [t \in BotTokens |-> 0]
    /\ UNCHANGED <<bot_pc, bot_gems, scans>>
    /\ UNCHANGED notBotVars
    /\ UNCHANGED <<leadVars, overlapVars, scoreVars, extractVars, runVars, ioVars>>

NextBot ==
    \/ \E gems \in GemLists : scan(gems)
    \/ FoundReplied
    \/ \E gems \in GemLists : monitor_callback(gems)
    \/ \E task \in BotTasks : AlertSent(task)
    \/ clear_alerted

SpecBot == InitBot /\ [][NextBot]_vars

\* C27, as stated: between two clears of the alerted-token list no token address
\* is alerted more than once, in every interleaving of /scan, /deepscan and the
\* monitor job.
C27_AsStated ==
    \A t \in BotTokens : alert_count[t] <= 1

(***************************************************************************)
(* SpecFront: gakecoordinationtracker.py, find_systematic_front_runners    *)
(* for one holder of a token the target bought.  get_token_purchases of    *)
(* this file keeps every purchase of a wallet, one per transaction, also   *)
(* several of one mint.  Timestamps are in seconds.                        *)
(***************************************************************************)

\* the most purchases of the target and of the holder
MaxGakePurchases == 2
MaxFrontPurchases == 3

FrontMints == {"A", "B"}
\* the target buys 200 h or 201 h after the origin; the holder buys 200 h, 100 h,
\* 1 h or half an hour before the first of these, or after both
GakeTimes == {720000, 723600}
FrontTimes == {0, 360000, 716400, 718200, 727200}
MinPatternCounts == {1, 2}

\* "if 1 <= time_diff_hours <= 168" for time_diff_hours = (gake - wallet) / 3600
in_front_window(gake_timestamp, wallet_timestamp) ==
    /\ 3600 <= gake_timestamp - wallet_timestamp
    /\ gake_timestamp - wallet_timestamp <= 168 * 3600

\* coordination_matches: one entry for every pair of a purchase of the target
\* and a purchase of the wallet that match, named by their places
coordination_matches(gake, wallet) ==
    {m \in (1..Len(gake)) \X (1..Len(wallet)) :
        /\ wallet[m[2]].token_mint = gake[m[1]].token_mint
        /\ wallet[m[2]].timestamp < gake[m[1]].timestamp
        /\ in_front_window(gake[m[1]].timestamp, wallet[m[2]].timestamp)}

\* wallet_patterns[wallet], or no entry; coordination_rate is the fraction
\* rate[1] / rate[2]
pattern_of(gake, wallet, min_pattern_count) ==
    LET matches == coordination_matches(gake, wallet)
    IN  IF Cardinality(matches) >= min_pattern_count
        THEN [kind |-> "pattern",
              coordination_count |-> Cardinality(matches),
              coordinated_mints |-> {gake[m[1]].token_mint : m \in matches},
              coordination_rate |-> <<Cardinality(matches) * 100, Len(gake)>>,
              min_pattern_count |-> min_pattern_count]
        ELSE NoPattern

InitFront == LeadAtRest /\ OverlapAtRest /\ ScoreAtRest /\ ExtractAtRest /\ RunAtRest /\ IoAtRest /\ LaterAtRest

\* a purchase of the target, as get_token_purchases(target) lists it
GakePurchase(mint, timestamp) ==
    /\ front_pc = "fetching"
    /\ Len(target_purchases) < MaxGakePurchases
    /\ target_purchases' = Append(target_purchases, [token_mint |-> mint, timestamp |-> timestamp])
    /\ UNCHANGED <<front_purchases, front_pc, wallet_patterns>>
    /\ UNCHANGED notFrontVars
    /\ UNCHANGED <<leadVars, overlapVars, scoreVars, extractVars, runVars, ioVars>>

\* a purchase of the holder, as get_token_purchases(wallet, 100) lists it
FrontPurchase(mint, timestamp) ==
    /\ front_pc = "fetching"
    /\ Len(front_purchases) < MaxFrontPurchases
    /\ front_purchases' = Append(front_purchases, [token_mint |-> mint, timestamp |-> timestamp])
    /\ UNCHANGED <<target_purchases, front_pc, wallet_patterns>>
    /\ UNCHANGED notFrontVars
    /\ UNCHANGED <<leadVars, overlapVars, scoreVars, extractVars, runVars, ioVars>>

\* find_systematic_front_runners(gake_purchases, min_pattern_count): the holder
\* comes from the holders of a token of gake_purchases, which is not empty
find_systematic_front_runners(min_pattern_count) ==
    /\ front_pc = "fetching"
    /\ target_purchases # <<>>
    /\ front_pc' = "returned"
    /\ wallet_patterns' = pattern_of(target_purchases, front_purchases, min_pattern_count)
    /\ UNCHANGED <<target_purchases, front_purchases>>
    /\ UNCHANGED notFrontVars
    /\ UNCHANGED <<leadVars, overlapVars, scoreVars, extractVars, runVars, ioVars>>

NextFront ==
    \/ \E mint \in FrontMints, timestamp \in GakeTimes : GakePurchase(mint, timestamp)
    \/ \E mint \in FrontMints, timestamp \in FrontTimes : FrontPurchase(mint, timestamp)
    \/ \E min_pattern_count \in MinPatternCounts : find_systematic_front_runners(min_pattern_count)

SpecFront == InitFront /\ [][NextFront]_vars

\* C28, as stated: a wallet that find_systematic_front_runners reports bought at
\* least min_pattern_count distinct tokens before the target within the window;
\* its coordination_count is the number of distinct shared tokens, and its
\* coordination_rate is at most 100 percent.
C28_AsStated ==
    wallet_patterns.kind = "pattern" =>
        /\ Cardinality(wallet_patterns.coordinated_mints) >= wallet_patterns.min_pattern_count
        /\ wallet_patterns.coordination_count = Cardinality(wallet_patterns.coordinated_mints)
        /\ wallet_patterns.coordination_rate[1] <= 100 * wallet_patterns.coordination_rate[2]

(***************************************************************************)
(* SpecCrawl: 2faster_kol_tracker.py, crawl_network.  The graph is what    *)
(* crawl_wallet finds when it crawls an address: any set of connected      *)
(* wallets, in any order of iteration, with any suspicion score; a crawl   *)
(* that fails finds none.                                                  *)
(***************************************************************************)

NumCrawlWallets == 3
MaxSeeds == 2
MaxDepths == {0, 1, 2}

CrawlWallets == 1..NumCrawlWallets

SeedLists == UNION {[1..n -> CrawlWallets] : n \in 1..MaxSeeds}

\* the orders in which a set can be iterated
RECURSIVE Orders(_)
Orders(S) ==
    IF S = {} THEN {<<>>}
    ELSE UNION {{<<x>> \o rest : rest \in Orders(S \ {x})} : x \in S}

\* "if address in visited or depth > self.max_depth: continue"
\* (the variant that looks at the depth alone)
crawl_skips_depth_only(address, depth, seen, depth_limit) == depth > depth_limit

crawl_skips(address, depth, seen, depth_limit) == address \in seen \/ depth > depth_limit

\* "if wallet_node.suspicion_score >= self.min_suspicion_threshold or depth < 2"
follows_connections(suspicious, depth) == suspicious \/ depth < 2

\* "for connected_wallet in wallet_node.connected_wallets: if connected_wallet
\* not in visited:" the wallets the loop appends
new_connections(connected_wallets, seen) == connected_wallets \ seen

\* "queue.append((connected_wallet, depth + 1))" for each of them in turn
RECURSIVE with_connected(_, _, _)
with_connected(queue, order, depth) ==
    IF order = <<>> THEN queue
    ELSE with_connected(Append(queue, <<Head(order), depth + 1>>), Tail(order), depth)

InitCrawl == LeadAtRest /\ OverlapAtRest /\ ScoreAtRest /\ ExtractAtRest /\ RunAtRest /\ IoAtRest /\ LaterAtRest

\* crawl_network(seed_wallets) of a crawler with self.max_depth = depth_limit
crawl_network(seed_wallets, depth_limit) ==
    /\ crawl_pc = "rest"
    /\ crawl_pc' = "crawling"
    /\ max_depth' = depth_limit
    /\ crawl_queue' = [i \in 1..Len(seed_wallets) |-> <<seed_wallets[i], 0>>]
    /\ visited' = {}
    /\ UNCHANGED <<crawls, passed_over>>
    /\ UNCHANGED notCrawlVars
    /\ UNCHANGED <<leadVars, overlapVars, scoreVars, extractVars, runVars, ioVars>>

\* an entry is taken from the queue and passed over
PassOver ==
    /\ crawl_pc = "crawling"
    /\ crawl_queue # <<>>
    /\ crawl_skips(Head(crawl_queue)[1], Head(crawl_queue)[2], visited, max_depth)
    /\ crawl_queue' = Tail(crawl_queue)
    /\ passed_over' = passed_over \cup
           {IF Head(crawl_queue)[1] \in visited THEN "visited" ELSE "too deep"}
    /\ UNCHANGED <<crawl_pc, visited, crawls, max_depth>>
    /\ UNCHANGED notCrawlVars
    /\ UNCHANGED <<leadVars, overlapVars, scoreVars, extractVars, runVars, ioVars>>

\* an entry is taken from the queue and its wallet crawled; the connected
\* wallets are iterated in some order
crawl_wallet(connected_wallets, suspicious) ==
    /\ crawl_pc = "crawling"
    /\ crawl_queue # <<>>
    /\ ~crawl_skips(Head(crawl_queue)[1], Head(crawl_queue)[2], visited, max_depth)
    /\ visited' = visited \cup {Head(crawl_queue)[1]}
    /\ crawls' = Append(crawls, Head(crawl_queue))
    /\ \E order \in Orders(new_connections(connected_wallets, visited')) :
           crawl_queue' =
               IF follows_connections(suspicious, Head(crawl_queue)[2])
               THEN with_connected(Tail(crawl_queue), order, Head(crawl_queue)[2])
               ELSE Tail(crawl_queue)
    /\ UNCHANGED <<crawl_pc, max_depth, passed_over>>
    /\ UNCHANGED notCrawlVars
    /\ UNCHANGED <<leadVars, overlapVars, scoreVars, extractVars, runVars, ioVars>>

\* "while queue:" ends
CrawlDone ==
    /\ crawl_pc = "crawling"
    /\ crawl_queue = <<>>
    /\ crawl_pc' = "done"
    /\ UNCHANGED <<crawl_queue, visited, crawls, max_depth, passed_over>>
    /\ UNCHANGED notCrawlVars
    /\ UNCHANGED <<leadVars, overlapVars, scoreVars, extractVars, runVars, ioVars>>

NextCrawl ==
    \/ \E seed_wallets \in SeedLists, depth_limit \in MaxDepths : crawl_network(seed_wallets, depth_limit)
    \/ PassOver
    \/ \E connected_wallets \in SUBSET CrawlWallets, suspicious \in BOOLEAN :
           crawl_wallet(connected_wallets, suspicious)
    \/ CrawlDone

SpecCrawl == InitCrawl /\ [][NextCrawl]_vars

\* C30: crawl_network crawls every wallet address at most once and never at a
\* depth greater than max_depth, for any graph and any seed list, duplicate
\* seeds included.
C30_OnceWithinDepth ==
    /\ \A i, j \in 1..Len(crawls) : crawls[i][1] = crawls[j][1] => i = j
    /\ \A i \in 1..Len(crawls) : crawls[i][2] <= max_depth

\* a crawl that is over, of at least two wallets, that passed over an address
\* seen before and an address beyond max_depth
C30_Witness ==
    /\ crawl_pc = "done"
    /\ Len(crawls) >= 2
    /\ passed_over = {"visited", "too deep"}

====
